---------------------------- MODULE Spec2Model ----------------------------
(***************************************************************************)
(* River: the edit-side timeline engine (TimelineManager), the flow        *)
(* segment ledger (FlowModel) and the timestamp arithmetic they rest on    *)
(* (TimestampUtils), modelled from the TypeScript sources.                 *)
(*                                                                         *)
(* Conventions.  JavaScript arrays are sequences; the helper operators     *)
(* take and return 0-based positions as the source does, -1 standing for   *)
(* "not found".  An optional argument is a sequence of length 0 or 1.      *)
(* uuidv4() is a counter (nextId): only the freshness of an id is ever     *)
(* used.  Fields the code only carries along (names, labels, Date stamps,  *)
(* command ids) are left out.                                              *)
(***************************************************************************)
EXTENDS Integers, Sequences, FiniteSets, TLC

VARIABLES
    timeline,       \* TimelineManager.timeline: tracks, markers, duration
    effHeap,        \* the effects arrays, by reference (split clips share one)
    history,        \* TimelineManager.history
    historyIndex,   \* TimelineManager.historyIndex (0-based cursor, -1 = none)
    nextId,         \* next value uuidv4() returns
    state,          \* TimelineManager.state: playhead, selection, zoomLevel, scrollPosition
    emitted,        \* events emitted by the last call, in order
    undone,         \* commands handed out by undo and not yet by redo, last first
    recent,         \* the last calls (at most three): op, kind, result
    preObs,         \* observable timeline before the last call
    prePos,         \* <<history length, historyIndex>> before the last call
    nMut,           \* number of mutator calls made so far
    nCalls,         \* number of TimelineManager calls made so far
    flow,           \* FlowModel: id, segments and generation
    flowCall,       \* the last FlowModel call and its outcome
    copy,           \* the FlowModel the last clone() returned: <<>> or <<[flow, array]>>
    tsCall          \* the TimestampUtils call: its arguments and what it returned

vars == <<timeline, effHeap, history, historyIndex, nextId, state, emitted, undone, recent,
          preObs, prePos, nMut, nCalls, flow, flowCall, copy, tsCall>>

tlVars == <<timeline, effHeap, history, historyIndex, nextId, state, emitted, undone, recent,
            preObs, prePos, nMut, nCalls>>

flowVars == <<flow, flowCall, copy>>

tsVars == <<tsCall>>

---------------------------------------------------------------------------
(* Bounds of the model                                                     *)

MaxMutations == 2      \* mutator calls in one behaviour of Spec
MaxCalls == 3          \* calls (mutators, undo, redo) in one behaviour of Spec
MaxTracks == 2         \* addTrack is not called on a timeline with this many tracks
MaxClips == 2          \* addClip is not called on a timeline with this many clips
MaxTrackIndex == 2     \* largest index passed to addTrack
MaxEffects == 1        \* addEffect is not called on a clip with this many effects
MaxMarkers == 1        \* addMarker is not called on a timeline with this many markers
MaxSegments == 3       \* addSegment is not called on a flow with this many segments
MaxFlowTick == 3       \* segment bounds are 0, 1/2, ..., MaxFlowTick/2 seconds
MaxSecondsInput == 11  \* seconds passed to TimestampUtils are -1..MaxSecondsInput
MaxNanoHalves == 3     \* nanoseconds passed to create reach MaxNanoHalves half seconds
MaxMarkerCalls == 4    \* calls in one behaviour of SpecMarkers
MaxRecorded == 3       \* recorded commands in one behaviour of SpecUndo
MaxUndoCalls == 7      \* calls in one behaviour of SpecUndo
MaxCompareSeconds == 1 \* seconds of the timestamps passed to compare are -1..MaxCompareSeconds
MaxStrLen == 5         \* longest string passed to fromString
MaxReorderIndex == 4    \* indices passed to reorderTracks in SpecReorder are -MaxReorderIndex..MaxReorderIndex
MaxReorderCalls == 2    \* calls in one behaviour of SpecReorder
MaxShortSegments == 2   \* segments of the source flow in SpecQuery and SpecClone
MaxCopyAdds == 1        \* addSegment calls on a clone
MaxMilliseconds == 2001 \* milliseconds passed to fromMilliseconds are -MaxMilliseconds..MaxMilliseconds

---------------------------------------------------------------------------
(* TimestampUtils                                                          *)

NANOSECONDS_PER_SECOND == 1000000000

\* JavaScript's % : the remainder takes the sign of the dividend.
JsRem(a, b) == IF a >= 0 THEN a % b ELSE -((-a) % b)

create(seconds, nanoseconds) ==
    [seconds |-> seconds + (nanoseconds \div NANOSECONDS_PER_SECOND),
     nanoseconds |-> JsRem(nanoseconds, NANOSECONDS_PER_SECOND)]

add(a, b) == create(a.seconds + b.seconds, a.nanoseconds + b.nanoseconds)

\* No borrow from the seconds.
subtractMut(a, b) ==
    [seconds |-> a.seconds - b.seconds, nanoseconds |-> a.nanoseconds - b.nanoseconds]

subtract(a, b) ==
    LET seconds == a.seconds - b.seconds
        nanoseconds == a.nanoseconds - b.nanoseconds
    IN  IF nanoseconds < 0
        THEN [seconds |-> seconds - 1,
              nanoseconds |-> nanoseconds + NANOSECONDS_PER_SECOND]
        ELSE [seconds |-> seconds, nanoseconds |-> nanoseconds]

\* The nanoseconds are not looked at.
compareMut(a, b) ==
    IF a.seconds < b.seconds THEN -1
    ELSE IF a.seconds > b.seconds THEN 1
    ELSE 0

compare(a, b) ==
    IF a.seconds < b.seconds THEN -1
    ELSE IF a.seconds > b.seconds THEN 1
    ELSE IF a.nanoseconds < b.nanoseconds THEN -1
    ELSE IF a.nanoseconds > b.nanoseconds THEN 1
    ELSE 0

isWithinRange(ts, range) ==
    compare(ts, range.start) >= 0 /\ compare(ts, range.end) < 0

duration(range) == subtract(range.end, range.start)

fromMilliseconds(ms) ==
    LET seconds == ms \div 1000
        nanoseconds == JsRem(ms, 1000) * 1000000
    IN  create(seconds, nanoseconds)

toMilliseconds(ts) == ts.seconds * 1000 + (ts.nanoseconds \div 1000000)

\* Strings are sequences of one-character strings.
DigitChars == <<"0", "1", "2", "3", "4", "5", "6", "7", "8", "9">>

isDigit(c) == \E d \in 1..Len(DigitChars) : DigitChars[d] = c

DigitValue(c) == (CHOOSE d \in 1..Len(DigitChars) : DigitChars[d] = c) - 1

\* The decimal digits of a natural number.
RECURSIVE NatToStr(_)
NatToStr(n) ==
    IF n < Len(DigitChars) THEN <<DigitChars[n + 1]>>
    ELSE NatToStr(n \div Len(DigitChars)) \o <<DigitChars[(n % Len(DigitChars)) + 1]>>

\* The sign of a negative number is left out.
numberToStringMut(n) == IF n < 0 THEN NatToStr(-n) ELSE NatToStr(n)

\* `${n}` for an integer n: an optional "-" and the decimal digits.
numberToString(n) == IF n < 0 THEN <<"-">> \o NatToStr(-n) ELSE NatToStr(n)

toString(ts) ==
    numberToString(ts.seconds) \o <<":">> \o numberToString(ts.nanoseconds)

\* String.prototype.split(separator) for a non-empty separator: cur is the
\* part being read.
RECURSIVE splitFrom(_, _, _)
splitFrom(str, separator, cur) ==
    IF str = <<>> THEN <<cur>>
    ELSE IF /\ Len(str) >= Len(separator)
            /\ SubSeq(str, 1, Len(separator)) = separator
    THEN <<cur>> \o splitFrom(SubSeq(str, Len(separator) + 1, Len(str)), separator, <<>>)
    ELSE splitFrom(Tail(str), separator, Append(cur, Head(str)))

split(str, separator) == splitFrom(str, separator, <<>>)

\* The value of a string of decimal digits.
RECURSIVE digitsToNat(_)
digitsToNat(str) ==
    IF str = <<>> THEN 0
    ELSE digitsToNat(SubSeq(str, 1, Len(str) - 1)) * Len(DigitChars)
            + DigitValue(str[Len(str)])

\* Number(str) for a string of digits, signs and separators: <<n>> for the
\* number n, <<>> for NaN.  The empty string is 0; an optional sign in front
\* of one or more digits is that integer; anything else made of these
\* characters is NaN.
Number(str) ==
    LET signed == str # <<>> /\ Head(str) \in {"-", "+"}
        digits == IF signed THEN Tail(str) ELSE str
    IN  IF str = <<>> THEN <<0>>
        ELSE IF digits = <<>> \/ \E p \in 1..Len(digits) : ~isDigit(digits[p]) THEN <<>>
        ELSE IF Head(str) = "-" THEN <<-digitsToNat(digits)>>
        ELSE <<digitsToNat(digits)>>

\* fromString: the destructuring takes the first two numbers (a missing
\* second one is undefined, which isNaN accepts as NaN).
fromString(str) ==
    LET parts == split(str, <<":">>)
        seconds == Number(parts[1])
        nanoseconds == IF Len(parts) >= 2 THEN Number(parts[2]) ELSE <<>>
    IN  IF seconds = <<>> \/ nanoseconds = <<>>
        THEN [result |-> "throw", value |-> <<>>]
        ELSE [result |-> "ok", value |-> create(seconds[1], nanoseconds[1])]

timeRangeToString(range) ==
    toString(range.start) \o <<".", ".", ".">> \o toString(range.end)

timeRangeFromString(str) ==
    LET parts == split(str, <<".", ".", ".">>)
    IN  IF Len(parts) # 2 THEN [result |-> "throw", value |-> <<>>]
        ELSE LET start == fromString(parts[1])
                 end == fromString(parts[2])
             IN  IF start.result = "throw" \/ end.result = "throw"
                 THEN [result |-> "throw", value |-> <<>>]
                 ELSE [result |-> "ok",
                       value |-> [start |-> start.value, end |-> end.value]]

---------------------------------------------------------------------------
(* JavaScript array primitives                                             *)

\* Array.prototype.splice(start, deleteCount, ...items): the array after it.
splice(arr, start, deleteCount, items) ==
    LET len == Len(arr)
        s == IF start < 0
             THEN (IF len + start < 0 THEN 0 ELSE len + start)
             ELSE (IF start > len THEN len ELSE start)
        d == IF deleteCount < 0 THEN 0
             ELSE IF deleteCount > len - s THEN len - s ELSE deleteCount
    IN  SubSeq(arr, 1, s) \o items \o SubSeq(arr, s + d + 1, len)

\* Array.prototype.findIndex: tests[p] tells whether the callback accepts the
\* element at position p; the 0-based position of the first accepted, or -1.
findIndex(tests) ==
    LET hits == {p \in 1..Len(tests) : tests[p]}
    IN  IF hits = {} THEN -1
        ELSE (CHOOSE p \in hits : \A q \in hits : p <= q) - 1

\* Array.prototype.filter: the elements of arr the callback accepts (keep[p]).
filter(arr, keep) ==
    LET kept == SelectSeq([p \in 1..Len(arr) |-> p], LAMBDA p : keep[p])
    IN  [i \in 1..Len(kept) |-> arr[kept[i]]]

\* Array.prototype.sort with a comparator on timestamps (stable, as ES2019
\* requires): keys[p] is the timestamp the comparator reads from arr[p].
RECURSIVE sortByKeys(_, _)
sortByKeys(arr, keys) ==
    IF arr = <<>> THEN <<>>
    ELSE LET n == Len(arr)
             init == sortByKeys(SubSeq(arr, 1, n - 1), SubSeq(keys, 1, n - 1))
             x == <<arr[n], keys[n]>>
             after == {p \in 1..Len(init) : compare(init[p][2], x[2]) > 0}
             pos == IF after = {} THEN Len(init)
                    ELSE (CHOOSE p \in after : \A q \in after : p <= q) - 1
         IN  SubSeq(init, 1, pos) \o <<x>> \o SubSeq(init, pos + 1, Len(init))

sortBy(arr, keys) ==
    LET pairs == sortByKeys(arr, keys) IN [p \in 1..Len(arr) |-> pairs[p][1]]

---------------------------------------------------------------------------
(* TimelineManager: state and helper methods                               *)

MaxHistorySize == 100

\* The manager's fields that its methods read and write, as one record.
State ==
    [timeline |-> timeline, effHeap |-> effHeap, history |-> history,
     historyIndex |-> historyIndex, nextId |-> nextId, state |-> state]

\* What a call hands back: the state after it, its outcome and its events.
\* result: "ok" (a value or true), "false" (false or null), "throw",
\* "noop" (a void return before anything is done).
Ret(st, result, events) == [st |-> st, result |-> result, emitted |-> events]

\* this.emit(event, payload) when the manager's fields are st: the event, its
\* payload (the command for 'undo' and 'redo', the stored value for the
\* view-state events, left out for the others) and the fields a listener
\* sees when it runs.
Emit(event, st, payload) == [event |-> event, payload |-> payload, seen |-> st]

\* getTrack: 0-based position of the first track with this id, or -1.
getTrack(tracks, trackId) == findIndex([i \in 1..Len(tracks) |-> tracks[i].id = trackId])

\* getClip: <<track position, clip position>> (0-based) of the first clip
\* with this id in track order, or <<>>.
getClip(tracks, clipId) ==
    LET holders == {p \in 1..Len(tracks) :
                      findIndex([i \in 1..Len(tracks[p].clips) |->
                                   tracks[p].clips[i].id = clipId]) # -1}
    IN  IF holders = {} THEN <<>>
        ELSE LET p == CHOOSE h \in holders : \A q \in holders : h <= q
             IN  <<p - 1, findIndex([i \in 1..Len(tracks[p].clips) |->
                                       tracks[p].clips[i].id = clipId])>>

\* Only the start of the new range is tested.
hasOverlapMut(track, timerange, excludeClipId) ==
    \E p \in 1..Len(track.clips) :
        LET clip == track.clips[p]
        IN  /\ clip.id # excludeClipId
            /\ isWithinRange(timerange.start, clip.timelineRange)

\* excludeClipId = 0 stands for "no clip excluded" (ids start at 1).
hasOverlap(track, timerange, excludeClipId) ==
    \E p \in 1..Len(track.clips) :
        LET clip == track.clips[p]
        IN  /\ clip.id # excludeClipId
            /\ compare(timerange.start, clip.timelineRange.end) < 0
            /\ compare(timerange.end, clip.timelineRange.start) > 0

findClipInsertIndex(track, timestamp) ==
    findIndex([i \in 1..Len(track.clips) |->
                 compare(track.clips[i].timelineRange.start, timestamp) > 0])

\* The redo-able suffix is kept.
executeCommandKeep(st, command) ==
    LET pushed == Append(st.history, command)
        idx == st.historyIndex + 1
    IN  IF Len(pushed) > MaxHistorySize
        THEN LET cut == SubSeq(pushed, Len(pushed) - MaxHistorySize + 1, Len(pushed))
             IN  [st EXCEPT !.history = cut, !.historyIndex = Len(cut) - 1]
        ELSE [st EXCEPT !.history = pushed, !.historyIndex = idx]

\* The cursor is not clamped after the eviction.
executeCommandMut(st, command) ==
    LET kept == SubSeq(st.history, 1, st.historyIndex + 1)
        pushed == Append(kept, command)
        idx == st.historyIndex + 1
    IN  IF Len(pushed) > MaxHistorySize
        THEN [st EXCEPT !.history = SubSeq(pushed, Len(pushed) - MaxHistorySize + 1,
                                           Len(pushed)),
                        !.historyIndex = idx]
        ELSE [st EXCEPT !.history = pushed, !.historyIndex = idx]

executeCommand(st, command) ==
    LET kept == SubSeq(st.history, 1, st.historyIndex + 1)
        pushed == Append(kept, command)
        idx == st.historyIndex + 1
    IN  IF Len(pushed) > MaxHistorySize
        THEN LET cut == SubSeq(pushed, Len(pushed) - MaxHistorySize + 1, Len(pushed))
             IN  [st EXCEPT !.history = cut, !.historyIndex = Len(cut) - 1]
        ELSE [st EXCEPT !.history = pushed, !.historyIndex = idx]

\* The loop of updateTimeline over one array of clips, from maxEnd.
RECURSIVE maxEndOfClips(_, _)
maxEndOfClips(clips, maxEnd) ==
    IF clips = <<>> THEN maxEnd
    ELSE maxEndOfClips(Tail(clips),
                       IF compare(Head(clips).timelineRange.end, maxEnd) > 0
                       THEN Head(clips).timelineRange.end ELSE maxEnd)

RECURSIVE maxEndOfTracks(_, _)
maxEndOfTracks(tracks, maxEnd) ==
    IF tracks = <<>> THEN maxEnd
    ELSE maxEndOfTracks(Tail(tracks), maxEndOfClips(Head(tracks).clips, maxEnd))

\* The scan starts from the current duration instead of zero.
updateTimelineMut(st) ==
    [st EXCEPT !.timeline.duration =
                   maxEndOfTracks(st.timeline.tracks, st.timeline.duration)]

\* updateTimeline: recompute the duration (and emit 'timeline:updated').
updateTimeline(st) ==
    [st EXCEPT !.timeline.duration = maxEndOfTracks(st.timeline.tracks, create(0, 0))]

\* The own event is emitted before updateTimeline runs.
NotifyMut(st, event, payload) ==
    LET st1 == updateTimeline(st)
    IN  Ret(st1, "ok", <<Emit(event, st, payload), Emit("timeline:updated", st1, <<>>)>>)

\* The end of a structural mutator: this.updateTimeline(), which recomputes
\* the duration and emits 'timeline:updated', then this.emit(event, payload).
Notify(st, event, payload) ==
    LET st1 == updateTimeline(st)
    IN  Ret(st1, "ok", <<Emit("timeline:updated", st1, <<>>), Emit(event, st1, payload)>>)

\* Renumber the tracks at 0-based positions >= from.
renumberFrom(tracks, from) ==
    [p \in 1..Len(tracks) |->
        IF p - 1 >= from THEN [tracks[p] EXCEPT !.index = p - 1] ELSE tracks[p]]

---------------------------------------------------------------------------
(* TimelineManager: track operations                                       *)

addTrack(st, index) ==
    LET newTrack == [id |-> st.nextId, index |-> index, clips |-> <<>>]
        inserted == splice(st.timeline.tracks, index, 0, <<newTrack>>)
        st1 == [st EXCEPT !.timeline.tracks = renumberFrom(inserted, index + 1),
                          !.nextId = st.nextId + 1]
        st2 == executeCommand(st1, [type |-> "add_track",
                                    data |-> [trackId |-> newTrack.id],
                                    undoData |-> [trackId |-> newTrack.id]])
    IN  Notify(st2, "track:added", <<>>)

removeTrack(st, trackId) ==
    LET trackIndex == getTrack(st.timeline.tracks, trackId)
    IN  IF trackIndex = -1 THEN Ret(st, "false", <<>>)
        ELSE
        LET removed == splice(st.timeline.tracks, trackIndex, 1, <<>>)
            st1 == [st EXCEPT !.timeline.tracks = renumberFrom(removed, trackIndex)]
            st2 == executeCommand(st1, [type |-> "remove_track",
                                        data |-> [trackId |-> trackId],
                                        undoData |-> [trackId |-> trackId,
                                                      index |-> trackIndex]])
        IN  Notify(st2, "track:removed", <<>>)

\* No early return when fromIndex = toIndex.
reorderTracksMut(st, fromIndex, toIndex) ==
    LET track == st.timeline.tracks[fromIndex + 1]
        taken == splice(st.timeline.tracks, fromIndex, 1, <<>>)
        placed == splice(taken, toIndex, 0, <<track>>)
        st1 == [st EXCEPT !.timeline.tracks = renumberFrom(placed, 0)]
        st2 == executeCommand(st1, [type |-> "reorder_tracks",
                                    data |-> [fromIndex |-> fromIndex,
                                              toIndex |-> toIndex],
                                    undoData |-> [fromIndex |-> toIndex,
                                                  toIndex |-> fromIndex]])
    IN  Notify(st2, "tracks:reordered", <<>>)

\* What the destructuring of an empty splice result yields, as an element of
\* the tracks array: no track has this id.
undefined == [id |-> 0, index |-> 0, clips |-> <<>>]

\* The indices are any numbers: splice counts a negative fromIndex from the
\* end and removes nothing at fromIndex >= length, and then undefined is
\* inserted and forEach throws at it (the tracks in front of it already
\* renumbered), before anything is recorded.
reorderTracks(st, fromIndex, toIndex) ==
    IF fromIndex = toIndex THEN Ret(st, "noop", <<>>)
    ELSE
    LET tracks == st.timeline.tracks
        len == Len(tracks)
        at == IF fromIndex < 0
              THEN (IF len + fromIndex < 0 THEN 0 ELSE len + fromIndex)
              ELSE fromIndex
        track == IF at < len THEN tracks[at + 1] ELSE undefined
        taken == splice(tracks, fromIndex, 1, <<>>)
        placed == splice(taken, toIndex, 0, <<track>>)
        thrownAt == findIndex([p \in 1..Len(placed) |-> placed[p] = undefined])
    IN  IF thrownAt # -1
        THEN Ret([st EXCEPT !.timeline.tracks =
                     [p \in 1..Len(placed) |->
                        IF p - 1 < thrownAt THEN [placed[p] EXCEPT !.index = p - 1]
                        ELSE placed[p]]],
                 "throw", <<>>)
        ELSE
        LET st1 == [st EXCEPT !.timeline.tracks = renumberFrom(placed, 0)]
            st2 == executeCommand(st1, [type |-> "reorder_tracks",
                                        data |-> [fromIndex |-> fromIndex,
                                                  toIndex |-> toIndex],
                                        undoData |-> [fromIndex |-> toIndex,
                                                      toIndex |-> fromIndex]])
        IN  Notify(st2, "tracks:reordered", <<>>)

---------------------------------------------------------------------------
(* TimelineManager: clip operations                                        *)

\* clip: the caller's timelineRange, sourceRange and transitions; its effects
\* array starts empty and is owned by the new clip.
addClip(st, trackId, clip) ==
    LET tracks == st.timeline.tracks
        t == getTrack(tracks, trackId)
    IN  IF t = -1 THEN Ret(st, "false", <<>>)
        ELSE IF hasOverlap(tracks[t + 1], clip.timelineRange, 0)
        THEN Ret(st, "throw", <<>>)
        ELSE
        LET newClip == [id |-> st.nextId, trackId |-> trackId,
                        timelineRange |-> clip.timelineRange,
                        sourceRange |-> clip.sourceRange,
                        transitions |-> clip.transitions,
                        effects |-> st.nextId]
            insertIndex == findClipInsertIndex(tracks[t + 1], newClip.timelineRange.start)
            st1 == [st EXCEPT
                      !.timeline.tracks[t + 1].clips =
                          splice(tracks[t + 1].clips, insertIndex, 0, <<newClip>>),
                      !.effHeap = [r \in DOMAIN st.effHeap \cup {newClip.effects} |->
                                     IF r = newClip.effects THEN <<>> ELSE st.effHeap[r]],
                      !.nextId = st.nextId + 1]
            st2 == executeCommand(st1, [type |-> "add_clip",
                                        data |-> [clipId |-> newClip.id],
                                        undoData |-> [clipId |-> newClip.id]])
        IN  Notify(st2, "clip:added", <<>>)

removeClip(st, clipId) ==
    LET tracks == st.timeline.tracks
        loc == getClip(tracks, clipId)
    IN  IF loc = <<>> THEN Ret(st, "false", <<>>)
        ELSE
        LET t == loc[1]
            clipIndex == loc[2]
            st1 == [st EXCEPT !.timeline.tracks[t + 1].clips =
                                  splice(tracks[t + 1].clips, clipIndex, 1, <<>>)]
            st2 == executeCommand(st1, [type |-> "remove_clip",
                                        data |-> [clipId |-> clipId],
                                        undoData |-> [clipId |-> clipId,
                                                      trackId |-> tracks[t + 1].id,
                                                      index |-> clipIndex]])
        IN  Notify(st2, "clip:removed", <<>>)

\* The moved clip is not left out of the overlap check.
moveClipMut(st, clipId, newTrackId, newTimelineStart) ==
    LET tracks == st.timeline.tracks
        loc == getClip(tracks, clipId)
    IN  IF loc = <<>> THEN Ret(st, "false", <<>>)
        ELSE
        LET clip == tracks[loc[1] + 1].clips[loc[2] + 1]
            sourceTrack == getTrack(tracks, clip.trackId)
            targetTrack == getTrack(tracks, newTrackId)
        IN  IF sourceTrack = -1 \/ targetTrack = -1 THEN Ret(st, "false", <<>>)
            ELSE
            LET newTimelineRange ==
                    [start |-> newTimelineStart,
                     end |-> add(newTimelineStart, duration(clip.timelineRange))]
            IN  IF hasOverlap(tracks[targetTrack + 1], newTimelineRange, 0)
                THEN Ret(st, "throw", <<>>)
                ELSE
                LET oldTrackId == clip.trackId
                    oldTimelineRange == clip.timelineRange
                    tracks1 == [tracks EXCEPT ![sourceTrack + 1].clips =
                                   filter(tracks[sourceTrack + 1].clips,
                                          [i \in 1..Len(tracks[sourceTrack + 1].clips) |->
                                             tracks[sourceTrack + 1].clips[i].id # clipId])]
                    moved == [clip EXCEPT !.trackId = newTrackId,
                                          !.timelineRange = newTimelineRange]
                    insertIndex == findClipInsertIndex(tracks1[targetTrack + 1],
                                                       newTimelineStart)
                    tracks2 == [tracks1 EXCEPT ![targetTrack + 1].clips =
                                   splice(tracks1[targetTrack + 1].clips,
                                          insertIndex, 0, <<moved>>)]
                    st1 == [st EXCEPT !.timeline.tracks = tracks2]
                    st2 == executeCommand(st1,
                              [type |-> "move_clip",
                               data |-> [clipId |-> clipId, newTrackId |-> newTrackId,
                                         newTimelineStart |-> newTimelineStart],
                               undoData |-> [clipId |-> clipId,
                                             oldTrackId |-> oldTrackId,
                                             oldTimelineRange |-> oldTimelineRange]])
                IN  Notify(st2, "clip:moved", <<>>)

\* The clip keeps the trackId of the track it left.
moveClipStale(st, clipId, newTrackId, newTimelineStart) ==
    LET tracks == st.timeline.tracks
        loc == getClip(tracks, clipId)
    IN  IF loc = <<>> THEN Ret(st, "false", <<>>)
        ELSE
        LET clip == tracks[loc[1] + 1].clips[loc[2] + 1]
            sourceTrack == getTrack(tracks, clip.trackId)
            targetTrack == getTrack(tracks, newTrackId)
        IN  IF sourceTrack = -1 \/ targetTrack = -1 THEN Ret(st, "false", <<>>)
            ELSE
            LET newTimelineRange ==
                    [start |-> newTimelineStart,
                     end |-> add(newTimelineStart, duration(clip.timelineRange))]
            IN  IF hasOverlap(tracks[targetTrack + 1], newTimelineRange, clipId)
                THEN Ret(st, "throw", <<>>)
                ELSE
                LET oldTrackId == clip.trackId
                    oldTimelineRange == clip.timelineRange
                    tracks1 == [tracks EXCEPT ![sourceTrack + 1].clips =
                                   filter(tracks[sourceTrack + 1].clips,
                                          [i \in 1..Len(tracks[sourceTrack + 1].clips) |->
                                             tracks[sourceTrack + 1].clips[i].id # clipId])]
                    moved == [clip EXCEPT !.timelineRange = newTimelineRange]
                    insertIndex == findClipInsertIndex(tracks1[targetTrack + 1],
                                                       newTimelineStart)
                    tracks2 == [tracks1 EXCEPT ![targetTrack + 1].clips =
                                   splice(tracks1[targetTrack + 1].clips,
                                          insertIndex, 0, <<moved>>)]
                    st1 == [st EXCEPT !.timeline.tracks = tracks2]
                    st2 == executeCommand(st1,
                              [type |-> "move_clip",
                               data |-> [clipId |-> clipId, newTrackId |-> newTrackId,
                                         newTimelineStart |-> newTimelineStart],
                               undoData |-> [clipId |-> clipId,
                                             oldTrackId |-> oldTrackId,
                                             oldTimelineRange |-> oldTimelineRange]])
                IN  Notify(st2, "clip:moved", <<>>)

moveClip(st, clipId, newTrackId, newTimelineStart) ==
    LET tracks == st.timeline.tracks
        loc == getClip(tracks, clipId)
    IN  IF loc = <<>> THEN Ret(st, "false", <<>>)
        ELSE
        LET clip == tracks[loc[1] + 1].clips[loc[2] + 1]
            sourceTrack == getTrack(tracks, clip.trackId)
            targetTrack == getTrack(tracks, newTrackId)
        IN  IF sourceTrack = -1 \/ targetTrack = -1 THEN Ret(st, "false", <<>>)
            ELSE
            LET newTimelineRange ==
                    [start |-> newTimelineStart,
                     end |-> add(newTimelineStart, duration(clip.timelineRange))]
            IN  IF hasOverlap(tracks[targetTrack + 1], newTimelineRange, clipId)
                THEN Ret(st, "throw", <<>>)
                ELSE
                LET oldTrackId == clip.trackId
                    oldTimelineRange == clip.timelineRange
                    tracks1 == [tracks EXCEPT ![sourceTrack + 1].clips =
                                   filter(tracks[sourceTrack + 1].clips,
                                          [i \in 1..Len(tracks[sourceTrack + 1].clips) |->
                                             tracks[sourceTrack + 1].clips[i].id # clipId])]
                    moved == [clip EXCEPT !.trackId = newTrackId,
                                          !.timelineRange = newTimelineRange]
                    insertIndex == findClipInsertIndex(tracks1[targetTrack + 1],
                                                       newTimelineStart)
                    tracks2 == [tracks1 EXCEPT ![targetTrack + 1].clips =
                                   splice(tracks1[targetTrack + 1].clips,
                                          insertIndex, 0, <<moved>>)]
                    st1 == [st EXCEPT !.timeline.tracks = tracks2]
                    st2 == executeCommand(st1,
                              [type |-> "move_clip",
                               data |-> [clipId |-> clipId, newTrackId |-> newTrackId,
                                         newTimelineStart |-> newTimelineStart],
                               undoData |-> [clipId |-> clipId,
                                             oldTrackId |-> oldTrackId,
                                             oldTimelineRange |-> oldTimelineRange]])
                IN  Notify(st2, "clip:moved", <<>>)

\* The source range is written before the overlap check.
trimClipMut(st, clipId, newSourceRange, newTimelineRange) ==
    LET tracks == st.timeline.tracks
        loc == getClip(tracks, clipId)
    IN  IF loc = <<>> THEN Ret(st, "false", <<>>)
        ELSE
        LET clip == tracks[loc[1] + 1].clips[loc[2] + 1]
            t == getTrack(tracks, clip.trackId)
        IN  IF t = -1 THEN Ret(st, "false", <<>>)
            ELSE
            LET clip1 == IF newSourceRange # <<>>
                         THEN [clip EXCEPT !.sourceRange = newSourceRange[1]]
                         ELSE clip
                st0 == [st EXCEPT !.timeline.tracks[loc[1] + 1].clips[loc[2] + 1] = clip1]
            IN  IF newTimelineRange # <<>>
                   /\ hasOverlap(tracks[t + 1], newTimelineRange[1], clipId)
                THEN Ret(st0, "throw", <<>>)
                ELSE
                LET clip2 == IF newTimelineRange # <<>>
                             THEN [clip1 EXCEPT !.timelineRange = newTimelineRange[1]]
                             ELSE clip1
                    clips1 == [tracks[loc[1] + 1].clips EXCEPT ![loc[2] + 1] = clip2]
                    tracks1 == [tracks EXCEPT ![loc[1] + 1].clips = clips1]
                    tracks2 == IF newTimelineRange # <<>>
                               THEN [tracks1 EXCEPT ![t + 1].clips =
                                       sortBy(tracks1[t + 1].clips,
                                              [p \in 1..Len(tracks1[t + 1].clips) |->
                                                 tracks1[t + 1].clips[p].timelineRange.start])]
                               ELSE tracks1
                    st1 == [st EXCEPT !.timeline.tracks = tracks2]
                    st2 == executeCommand(st1,
                              [type |-> "trim_clip",
                               data |-> [clipId |-> clipId,
                                         newSourceRange |-> newSourceRange,
                                         newTimelineRange |-> newTimelineRange],
                               undoData |-> [clipId |-> clipId,
                                             oldSourceRange |-> clip.sourceRange,
                                             oldTimelineRange |-> clip.timelineRange]])
                IN  Notify(st2, "clip:trimmed", <<>>)

\* newSourceRange and newTimelineRange are optional: <<>> or <<range>>.
trimClip(st, clipId, newSourceRange, newTimelineRange) ==
    LET tracks == st.timeline.tracks
        loc == getClip(tracks, clipId)
    IN  IF loc = <<>> THEN Ret(st, "false", <<>>)
        ELSE
        LET clip == tracks[loc[1] + 1].clips[loc[2] + 1]
            t == getTrack(tracks, clip.trackId)
        IN  IF t = -1 THEN Ret(st, "false", <<>>)
            ELSE IF newTimelineRange # <<>>
                    /\ hasOverlap(tracks[t + 1], newTimelineRange[1], clipId)
            THEN Ret(st, "throw", <<>>)
            ELSE
            LET clip1 == IF newSourceRange # <<>>
                         THEN [clip EXCEPT !.sourceRange = newSourceRange[1]]
                         ELSE clip
                clip2 == IF newTimelineRange # <<>>
                         THEN [clip1 EXCEPT !.timelineRange = newTimelineRange[1]]
                         ELSE clip1
                clips1 == [tracks[loc[1] + 1].clips EXCEPT ![loc[2] + 1] = clip2]
                tracks1 == [tracks EXCEPT ![loc[1] + 1].clips = clips1]
                tracks2 == IF newTimelineRange # <<>>
                           THEN [tracks1 EXCEPT ![t + 1].clips =
                                   sortBy(tracks1[t + 1].clips,
                                          [p \in 1..Len(tracks1[t + 1].clips) |->
                                             tracks1[t + 1].clips[p].timelineRange.start])]
                           ELSE tracks1
                st1 == [st EXCEPT !.timeline.tracks = tracks2]
                st2 == executeCommand(st1,
                          [type |-> "trim_clip",
                           data |-> [clipId |-> clipId,
                                     newSourceRange |-> newSourceRange,
                                     newTimelineRange |-> newTimelineRange],
                           undoData |-> [clipId |-> clipId,
                                         oldSourceRange |-> clip.sourceRange,
                                         oldTimelineRange |-> clip.timelineRange]])
            IN  Notify(st2, "clip:trimmed", <<>>)

\* The second clip keeps the whole source range.
splitClipMut(st, clipId, splitPoint) ==
    LET tracks == st.timeline.tracks
        loc == getClip(tracks, clipId)
    IN  IF loc = <<>> THEN Ret(st, "false", <<>>)
        ELSE
        LET clip == tracks[loc[1] + 1].clips[loc[2] + 1]
            t == getTrack(tracks, clip.trackId)
        IN  IF t = -1 THEN Ret(st, "false", <<>>)
            ELSE IF ~isWithinRange(splitPoint, clip.timelineRange)
            THEN Ret(st, "throw", <<>>)
            ELSE
            LET firstDuration == subtract(splitPoint, clip.timelineRange.start)
                firstClip ==
                    [clip EXCEPT
                       !.id = st.nextId,
                       !.timelineRange = [start |-> clip.timelineRange.start,
                                          end |-> splitPoint],
                       !.sourceRange = [start |-> clip.sourceRange.start,
                                        end |-> add(clip.sourceRange.start, firstDuration)],
                       !.transitions = [in |-> clip.transitions.in,
                                        out |-> "undefined"]]
                secondClip ==
                    [clip EXCEPT
                       !.id = st.nextId + 1,
                       !.timelineRange = [start |-> splitPoint,
                                          end |-> clip.timelineRange.end],
                       !.sourceRange = [start |-> clip.sourceRange.start,
                                        end |-> clip.sourceRange.end],
                       !.transitions = [in |-> "undefined",
                                        out |-> clip.transitions.out]]
                clipIndex == findIndex([i \in 1..Len(tracks[t + 1].clips) |->
                                          tracks[t + 1].clips[i].id = clipId])
                st1 == [st EXCEPT
                          !.timeline.tracks[t + 1].clips =
                              splice(tracks[t + 1].clips, clipIndex, 1,
                                     <<firstClip, secondClip>>),
                          !.nextId = st.nextId + 2]
                st2 == executeCommand(st1,
                          [type |-> "split_clip",
                           data |-> [originalClipId |-> clipId,
                                     splitPoint |-> splitPoint,
                                     firstClipId |-> firstClip.id,
                                     secondClipId |-> secondClip.id],
                           undoData |-> [originalClipId |-> clipId,
                                         trackId |-> tracks[t + 1].id,
                                         index |-> clipIndex]])
            IN  Notify(st2, "clip:split", <<>>)

splitClip(st, clipId, splitPoint) ==
    LET tracks == st.timeline.tracks
        loc == getClip(tracks, clipId)
    IN  IF loc = <<>> THEN Ret(st, "false", <<>>)
        ELSE
        LET clip == tracks[loc[1] + 1].clips[loc[2] + 1]
            t == getTrack(tracks, clip.trackId)
        IN  IF t = -1 THEN Ret(st, "false", <<>>)
            ELSE IF ~isWithinRange(splitPoint, clip.timelineRange)
            THEN Ret(st, "throw", <<>>)
            ELSE
            LET firstDuration == subtract(splitPoint, clip.timelineRange.start)
                firstClip ==
                    [clip EXCEPT
                       !.id = st.nextId,
                       !.timelineRange = [start |-> clip.timelineRange.start,
                                          end |-> splitPoint],
                       !.sourceRange = [start |-> clip.sourceRange.start,
                                        end |-> add(clip.sourceRange.start, firstDuration)],
                       !.transitions = [in |-> clip.transitions.in,
                                        out |-> "undefined"]]
                secondClip ==
                    [clip EXCEPT
                       !.id = st.nextId + 1,
                       !.timelineRange = [start |-> splitPoint,
                                          end |-> clip.timelineRange.end],
                       !.sourceRange = [start |-> add(clip.sourceRange.start, firstDuration),
                                        end |-> clip.sourceRange.end],
                       !.transitions = [in |-> "undefined",
                                        out |-> clip.transitions.out]]
                clipIndex == findIndex([i \in 1..Len(tracks[t + 1].clips) |->
                                          tracks[t + 1].clips[i].id = clipId])
                st1 == [st EXCEPT
                          !.timeline.tracks[t + 1].clips =
                              splice(tracks[t + 1].clips, clipIndex, 1,
                                     <<firstClip, secondClip>>),
                          !.nextId = st.nextId + 2]
                st2 == executeCommand(st1,
                          [type |-> "split_clip",
                           data |-> [originalClipId |-> clipId,
                                     splitPoint |-> splitPoint,
                                     firstClipId |-> firstClip.id,
                                     secondClipId |-> secondClip.id],
                           undoData |-> [originalClipId |-> clipId,
                                         trackId |-> tracks[t + 1].id,
                                         index |-> clipIndex]])
            IN  Notify(st2, "clip:split", <<>>)

---------------------------------------------------------------------------
(* TimelineManager: effect and marker operations                           *)

\* The clip's effects array is effHeap[clip.effects].
addEffect(st, clipId) ==
    LET tracks == st.timeline.tracks
        loc == getClip(tracks, clipId)
    IN  IF loc = <<>> THEN Ret(st, "false", <<>>)
        ELSE
        LET clip == tracks[loc[1] + 1].clips[loc[2] + 1]
            newEffect == [id |-> st.nextId]
            st1 == [st EXCEPT !.effHeap[clip.effects] = Append(@, newEffect),
                              !.nextId = st.nextId + 1]
            st2 == executeCommand(st1, [type |-> "add_effect",
                                        data |-> [clipId |-> clipId,
                                                  effectId |-> newEffect.id],
                                        undoData |-> [clipId |-> clipId,
                                                      effectId |-> newEffect.id]])
        IN  Ret(st2, "ok", <<Emit("effect:added", st2, <<>>)>>)

\* The effect that is not found is not reported: splice(-1, 1) takes the
\* last effect of the clip.
removeEffectMut(st, clipId, effectId) ==
    LET tracks == st.timeline.tracks
        loc == getClip(tracks, clipId)
    IN  IF loc = <<>> THEN Ret(st, "false", <<>>)
        ELSE
        LET clip == tracks[loc[1] + 1].clips[loc[2] + 1]
            effects == st.effHeap[clip.effects]
            effectIndex == findIndex([i \in 1..Len(effects) |-> effects[i].id = effectId])
            st1 == [st EXCEPT !.effHeap[clip.effects] =
                                  splice(effects, effectIndex, 1, <<>>)]
            st2 == executeCommand(st1, [type |-> "remove_effect",
                                        data |-> [clipId |-> clipId,
                                                  effectId |-> effectId],
                                        undoData |-> [clipId |-> clipId,
                                                      effectId |-> effectId,
                                                      index |-> effectIndex]])
        IN  Ret(st2, "ok", <<Emit("effect:removed", st2, <<>>)>>)

removeEffect(st, clipId, effectId) ==
    LET tracks == st.timeline.tracks
        loc == getClip(tracks, clipId)
    IN  IF loc = <<>> THEN Ret(st, "false", <<>>)
        ELSE
        LET clip == tracks[loc[1] + 1].clips[loc[2] + 1]
            effects == st.effHeap[clip.effects]
            effectIndex == findIndex([i \in 1..Len(effects) |-> effects[i].id = effectId])
        IN  IF effectIndex = -1 THEN Ret(st, "false", <<>>)
            ELSE
            LET st1 == [st EXCEPT !.effHeap[clip.effects] =
                                      splice(effects, effectIndex, 1, <<>>)]
                st2 == executeCommand(st1, [type |-> "remove_effect",
                                            data |-> [clipId |-> clipId,
                                                      effectId |-> effectId],
                                            undoData |-> [clipId |-> clipId,
                                                          effectId |-> effectId,
                                                          index |-> effectIndex]])
            IN  Ret(st2, "ok", <<Emit("effect:removed", st2, <<>>)>>)

\* The marker goes in front of the markers with the same timestamp.
addMarkerMut(st, timestamp) ==
    LET markers == st.timeline.markers
        newMarker == [id |-> st.nextId, timestamp |-> timestamp]
        insertIndex == findIndex([i \in 1..Len(markers) |->
                                    compare(markers[i].timestamp, timestamp) >= 0])
        st1 == [st EXCEPT !.timeline.markers =
                              IF insertIndex = -1 THEN Append(markers, newMarker)
                              ELSE splice(markers, insertIndex, 0, <<newMarker>>),
                          !.nextId = st.nextId + 1]
        st2 == executeCommand(st1, [type |-> "add_marker",
                                    data |-> [markerId |-> newMarker.id],
                                    undoData |-> [markerId |-> newMarker.id]])
    IN  Ret(st2, "ok", <<Emit("marker:added", st2, <<>>)>>)

addMarker(st, timestamp) ==
    LET markers == st.timeline.markers
        newMarker == [id |-> st.nextId, timestamp |-> timestamp]
        insertIndex == findIndex([i \in 1..Len(markers) |->
                                    compare(markers[i].timestamp, timestamp) > 0])
        st1 == [st EXCEPT !.timeline.markers =
                              IF insertIndex = -1 THEN Append(markers, newMarker)
                              ELSE splice(markers, insertIndex, 0, <<newMarker>>),
                          !.nextId = st.nextId + 1]
        st2 == executeCommand(st1, [type |-> "add_marker",
                                    data |-> [markerId |-> newMarker.id],
                                    undoData |-> [markerId |-> newMarker.id]])
    IN  Ret(st2, "ok", <<Emit("marker:added", st2, <<>>)>>)

removeMarker(st, markerId) ==
    LET markers == st.timeline.markers
        markerIndex == findIndex([i \in 1..Len(markers) |-> markers[i].id = markerId])
    IN  IF markerIndex = -1 THEN Ret(st, "false", <<>>)
        ELSE
        LET st1 == [st EXCEPT !.timeline.markers = splice(markers, markerIndex, 1, <<>>)]
            st2 == executeCommand(st1, [type |-> "remove_marker",
                                        data |-> [markerId |-> markerId],
                                        undoData |-> [markerId |-> markerId,
                                                      index |-> markerIndex]])
        IN  Ret(st2, "ok", <<Emit("marker:removed", st2, <<>>)>>)

---------------------------------------------------------------------------
(* TimelineManager: view state                                             *)

\* A number that may be NaN is <<n>> for the integer n and <<>> for NaN.
\* Math.min and Math.max return NaN when an argument is NaN.
MathMin(a, b) == IF a = <<>> \/ b = <<>> THEN <<>> ELSE IF a[1] < b[1] THEN a ELSE b

MathMax(a, b) == IF a = <<>> \/ b = <<>> THEN <<>> ELSE IF a[1] > b[1] THEN a ELSE b

MinZoomLevel == 10

MaxZoomLevel == 1000

\* The history is cut at the cursor, as a recorded command would do.
setPlayheadMut(st, timestamp) ==
    LET st1 == [st EXCEPT !.state.playhead = timestamp,
                          !.history = SubSeq(st.history, 1, st.historyIndex + 1)]
    IN  Ret(st1, "ok", <<Emit("playhead:changed", st1, timestamp)>>)

setPlayhead(st, timestamp) ==
    LET st1 == [st EXCEPT !.state.playhead = timestamp]
    IN  Ret(st1, "ok", <<Emit("playhead:changed", st1, timestamp)>>)

setSelection(st, selection) ==
    LET st1 == [st EXCEPT !.state.selection = selection]
    IN  Ret(st1, "ok", <<Emit("selection:changed", st1, selection)>>)

setZoomLevel(st, zoomLevel) ==
    LET st1 == [st EXCEPT !.state.zoomLevel =
                              MathMax(<<MinZoomLevel>>, MathMin(<<MaxZoomLevel>>, zoomLevel))]
    IN  Ret(st1, "ok", <<Emit("zoom:changed", st1, st1.state.zoomLevel)>>)

---------------------------------------------------------------------------
(* TimelineManager: undo and redo                                          *)

canUndo(st) == st.historyIndex >= 0

canRedo(st) == st.historyIndex < Len(st.history) - 1

\* A revert of add_track alone, with no matching reapply.
applyUndoMut(st, command) ==
    IF command.type = "add_track"
    THEN LET p == getTrack(st.timeline.tracks, command.undoData.trackId)
         IN  IF p = -1 THEN st
             ELSE [st EXCEPT !.timeline.tracks =
                      renumberFrom(splice(st.timeline.tracks, p, 1, <<>>), 0)]
    ELSE st

\* applyUndo only logs the command: no field of the manager is written.
applyUndo(st, command) == st

\* applyRedo only logs the command: no field of the manager is written.
applyRedo(st, command) == st

\* The guard looks at the history length instead of the cursor.
undoMut(st) ==
    IF Len(st.history) = 0 THEN Ret(st, "false", <<>>)
    ELSE
    LET command == IF st.historyIndex >= 0 THEN st.history[st.historyIndex + 1]
                   ELSE <<>>
        st2 == [st EXCEPT !.historyIndex = st.historyIndex - 1]
    IN  Notify(st2, "undo", command)

undo(st) ==
    IF ~canUndo(st) THEN Ret(st, "false", <<>>)
    ELSE
    LET command == st.history[st.historyIndex + 1]
        st1 == applyUndo(st, command)
        st2 == [st1 EXCEPT !.historyIndex = st1.historyIndex - 1]
    IN  Notify(st2, "undo", command)

\* The command is read before the cursor moves.
redoMut(st) ==
    IF ~canRedo(st) THEN Ret(st, "false", <<>>)
    ELSE
    LET command == IF st.historyIndex >= 0 THEN st.history[st.historyIndex + 1]
                   ELSE <<>>
        st1 == [st EXCEPT !.historyIndex = st.historyIndex + 1]
    IN  Notify(st1, "redo", command)

redo(st) ==
    IF ~canRedo(st) THEN Ret(st, "false", <<>>)
    ELSE
    LET st1 == [st EXCEPT !.historyIndex = st.historyIndex + 1]
        command == st1.history[st1.historyIndex + 1]
        st2 == applyRedo(st1, command)
    IN  Notify(st2, "redo", command)

---------------------------------------------------------------------------
(* The timeline as a caller observes it                                    *)

ObsOf(st) ==
    [tracks |->
        [p \in 1..Len(st.timeline.tracks) |->
            LET t == st.timeline.tracks[p]
            IN  [id |-> t.id, index |-> t.index,
                 clips |-> [c \in 1..Len(t.clips) |->
                              [t.clips[c] EXCEPT
                                 !.effects = st.effHeap[t.clips[c].effects]]]]],
     markers |-> st.timeline.markers,
     duration |-> st.timeline.duration]

Obs == ObsOf(State)

AllClips(tracks) ==
    UNION {{tracks[p].clips[c] : c \in 1..Len(tracks[p].clips)} : p \in 1..Len(tracks)}

NumClips(tracks) == Cardinality(AllClips(tracks))

---------------------------------------------------------------------------
(* Inputs                                                                  *)

MaxTick == 2           \* timestamps passed in are 0, 1/2, ..., MaxTick/2 seconds

Tick(h) == create(h \div 2, (h % 2) * (NANOSECONDS_PER_SECOND \div 2))

Times == {Tick(h) : h \in 0..MaxTick}

\* Ranges with start <= end, as callers must pass them.
Ranges == {r \in [start : Times, end : Times] : compare(r.start, r.end) <= 0}

SourceOffset == create(1, NANOSECONDS_PER_SECOND \div 2)

ClipInputs ==
    {[timelineRange |-> r,
      sourceRange |-> [start |-> add(r.start, SourceOffset),
                       end |-> add(r.end, SourceOffset)],
      transitions |-> [in |-> "fade-in", out |-> "fade-out"]] : r \in Ranges}

TrimSourceInputs == {<<>>, <<[start |-> Tick(0), end |-> Tick(1)]>>}

TrimTimelineInputs == {<<>>} \cup {<<r>> : r \in Ranges}

TrackIds == {timeline.tracks[p].id : p \in 1..Len(timeline.tracks)}

ClipIds == {c.id : c \in AllClips(timeline.tracks)}

MarkerIds == {timeline.markers[p].id : p \in 1..Len(timeline.markers)}

---------------------------------------------------------------------------
(* Specification of the timeline engine                                    *)

\* The constructor keeps the Timeline it is handed.  The timelines handed in
\* are well-formed: indices 0..n-1, clips sorted and disjoint, the duration
\* the largest clip end; each comes with the ids it uses.
SeedClip(id, trackId, a, b) ==
    [id |-> id, trackId |-> trackId,
     timelineRange |-> [start |-> Tick(a), end |-> Tick(b)],
     sourceRange |-> [start |-> add(Tick(a), SourceOffset),
                      end |-> add(Tick(b), SourceOffset)],
     transitions |-> [in |-> "fade-in", out |-> "fade-out"],
     effects |-> id]

EmptyTimeline == [tracks |-> <<>>, markers |-> <<>>, duration |-> create(0, 0)]

OneTrackTimeline ==
    [tracks |-> << [id |-> 1, index |-> 0,
                    clips |-> <<SeedClip(2, 1, 0, 1), SeedClip(3, 1, 1, 2)>>] >>,
     markers |-> <<>>, duration |-> Tick(2)]

TwoTrackTimeline ==
    [tracks |-> << [id |-> 1, index |-> 0, clips |-> <<SeedClip(3, 1, 0, 1)>>],
                   [id |-> 2, index |-> 1, clips |-> <<>>] >>,
     markers |-> <<>>, duration |-> Tick(1)]

InitialTimelines == {EmptyTimeline, OneTrackTimeline, TwoTrackTimeline}

ThreeTrackTimeline ==
    [tracks |-> << [id |-> 1, index |-> 0, clips |-> <<>>],
                   [id |-> 2, index |-> 1, clips |-> <<>>],
                   [id |-> 3, index |-> 2, clips |-> <<>>] >>,
     markers |-> <<>>, duration |-> create(0, 0)]

EmptyFlow == [id |-> "source", segments |-> <<>>, generation |-> 0]

NoTimeCall == [op |-> "none", kind |-> "none", arg |-> <<>>, value |-> <<>>]

InitialZoomLevel == 100

\* The view state the constructor sets.
InitialState ==
    [playhead |-> create(0, 0), selection |-> <<>>, zoomLevel |-> <<InitialZoomLevel>>,
     scrollPosition |-> 0]

\* The stack of undone commands after a call: undo pushes the command it
\* hands out, redo pops one, a recorded command empties it.
Undone(r, kind) ==
    IF r.result # "ok" THEN undone
    ELSE IF kind = "undo" THEN <<r.emitted[Len(r.emitted)].payload>> \o undone
    ELSE IF kind = "redo" THEN (IF undone = <<>> THEN <<>> ELSE Tail(undone))
    ELSE IF kind = "mutator" THEN <<>>
    ELSE undone

\* The state after construction, with the arguments of the TimestampUtils call.
InitAll(tl, call) ==
    /\ timeline = tl
    /\ effHeap = [r \in {c.effects : c \in AllClips(tl.tracks)} |-> <<>>]
    /\ history = <<>>
    /\ historyIndex = -1
    /\ nextId = 4
    /\ state = InitialState
    /\ emitted = <<>>
    /\ undone = <<>>
    /\ recent = <<>>
    /\ preObs = Obs
    /\ prePos = <<0, -1>>
    /\ nMut = 0
    /\ nCalls = 0
    /\ flow = EmptyFlow
    /\ flowCall = [op |-> "new", arg |-> <<>>, result |-> "ok", value |-> <<>>]
    /\ copy = <<>>
    /\ tsCall = call

InitWith(tl) == InitAll(tl, NoTimeCall)

Init == \E tl \in InitialTimelines : InitWith(tl)

LastThree(calls) ==
    IF Len(calls) <= 3 THEN calls ELSE SubSeq(calls, Len(calls) - 2, Len(calls))

\* One call of a method: r is what the method hands back.
Apply(r, op, kind) ==
    /\ timeline' = r.st.timeline
    /\ effHeap' = r.st.effHeap
    /\ history' = r.st.history
    /\ historyIndex' = r.st.historyIndex
    /\ nextId' = r.st.nextId
    /\ state' = r.st.state
    /\ emitted' = r.emitted
    /\ undone' = Undone(r, kind)
    /\ recent' = LastThree(Append(recent, [op |-> op, kind |-> kind,
                                           result |-> r.result]))
    /\ preObs' = Obs
    /\ prePos' = <<Len(history), historyIndex>>
    /\ nMut' = IF kind = "mutator" THEN nMut + 1 ELSE nMut
    /\ nCalls' = nCalls + 1
    /\ UNCHANGED <<flowVars, tsVars>>

AddTrack ==
    /\ nMut < MaxMutations /\ nCalls < MaxCalls
    /\ Len(timeline.tracks) < MaxTracks
    /\ \E index \in 0..MaxTrackIndex : Apply(addTrack(State, index), "addTrack", "mutator")

RemoveTrack ==
    /\ nMut < MaxMutations /\ nCalls < MaxCalls
    /\ \E trackId \in TrackIds : Apply(removeTrack(State, trackId), "removeTrack", "mutator")

ReorderTracks ==
    /\ nMut < MaxMutations /\ nCalls < MaxCalls
    /\ \E fromIndex, toIndex \in 0..(Len(timeline.tracks) - 1) :
          Apply(reorderTracks(State, fromIndex, toIndex), "reorderTracks", "mutator")

AddClip ==
    /\ nMut < MaxMutations /\ nCalls < MaxCalls
    /\ NumClips(timeline.tracks) < MaxClips
    /\ \E trackId \in TrackIds, clip \in ClipInputs :
          Apply(addClip(State, trackId, clip), "addClip", "mutator")

RemoveClip ==
    /\ nMut < MaxMutations /\ nCalls < MaxCalls
    /\ \E clipId \in ClipIds : Apply(removeClip(State, clipId), "removeClip", "mutator")

MoveClip ==
    /\ nMut < MaxMutations /\ nCalls < MaxCalls
    /\ \E clipId \in ClipIds, newTrackId \in TrackIds, newTimelineStart \in Times :
          Apply(moveClip(State, clipId, newTrackId, newTimelineStart),
                "moveClip", "mutator")

TrimClip ==
    /\ nMut < MaxMutations /\ nCalls < MaxCalls
    /\ \E clipId \in ClipIds, newSourceRange \in TrimSourceInputs,
          newTimelineRange \in TrimTimelineInputs :
          Apply(trimClip(State, clipId, newSourceRange, newTimelineRange),
                "trimClip", "mutator")

SplitClip ==
    /\ nMut < MaxMutations /\ nCalls < MaxCalls
    /\ \E clipId \in ClipIds, splitPoint \in Times :
          Apply(splitClip(State, clipId, splitPoint), "splitClip", "mutator")

AddEffect ==
    /\ nMut < MaxMutations /\ nCalls < MaxCalls
    /\ \E clip \in AllClips(timeline.tracks) :
          /\ Len(effHeap[clip.effects]) < MaxEffects
          /\ Apply(addEffect(State, clip.id), "addEffect", "mutator")

RemoveEffect ==
    /\ nMut < MaxMutations /\ nCalls < MaxCalls
    /\ \E clip \in AllClips(timeline.tracks) :
          \E e \in 1..Len(effHeap[clip.effects]) :
              Apply(removeEffect(State, clip.id, effHeap[clip.effects][e].id),
                    "removeEffect", "mutator")

AddMarker ==
    /\ nMut < MaxMutations /\ nCalls < MaxCalls
    /\ Len(timeline.markers) < MaxMarkers
    /\ \E timestamp \in Times : Apply(addMarker(State, timestamp), "addMarker", "mutator")

RemoveMarker ==
    /\ nMut < MaxMutations /\ nCalls < MaxCalls
    /\ \E markerId \in MarkerIds :
          Apply(removeMarker(State, markerId), "removeMarker", "mutator")

Undo == nCalls < MaxCalls /\ Apply(undo(State), "undo", "undo")

Redo == nCalls < MaxCalls /\ Apply(redo(State), "redo", "redo")

Next ==
    \/ AddTrack
    \/ RemoveTrack
    \/ ReorderTracks
    \/ AddClip
    \/ RemoveClip
    \/ MoveClip
    \/ TrimClip
    \/ SplitClip
    \/ AddEffect
    \/ RemoveEffect
    \/ AddMarker
    \/ RemoveMarker
    \/ Undo
    \/ Redo

Spec == Init /\ [][Next]_vars

---------------------------------------------------------------------------
(* Specification of the history bound: one recorded operation, repeated    *)
(* past maxHistorySize, with undo and redo at any point.  The calls are    *)
(* not counted here (the history is bounded by the code itself) and only   *)
(* the last call is remembered.                                            *)

ApplyHist(r, op, kind) ==
    /\ timeline' = r.st.timeline
    /\ effHeap' = r.st.effHeap
    /\ history' = r.st.history
    /\ historyIndex' = r.st.historyIndex
    /\ nextId' = r.st.nextId
    /\ state' = r.st.state
    /\ emitted' = r.emitted
    /\ undone' = Undone(r, kind)
    /\ recent' = <<[op |-> op, kind |-> kind, result |-> r.result]>>
    /\ preObs' = Obs
    /\ prePos' = <<Len(history), historyIndex>>
    /\ UNCHANGED <<nMut, nCalls, flowVars, tsVars>>

InitHist == InitWith(TwoTrackTimeline)

HistReorderTracks == ApplyHist(reorderTracks(State, 0, 1), "reorderTracks", "mutator")

HistUndo == ApplyHist(undo(State), "undo", "undo")

HistRedo == ApplyHist(redo(State), "redo", "redo")

NextHist ==
    \/ HistReorderTracks
    \/ HistUndo
    \/ HistRedo

SpecHist == InitHist /\ [][NextHist]_vars

---------------------------------------------------------------------------
(* Specification of the cursor: a few recorded commands that differ from   *)
(* their neighbours, with undo and redo at any point                       *)

InitUndo == InitWith(TwoTrackTimeline)

UndoReorderTracks ==
    /\ nMut < MaxRecorded /\ nCalls < MaxUndoCalls
    /\ \E fromIndex, toIndex \in 0..(Len(timeline.tracks) - 1) :
          /\ fromIndex # toIndex
          /\ Apply(reorderTracks(State, fromIndex, toIndex), "reorderTracks", "mutator")

UndoUndo == nCalls < MaxUndoCalls /\ Apply(undo(State), "undo", "undo")

UndoRedo == nCalls < MaxUndoCalls /\ Apply(redo(State), "redo", "redo")

NextUndo ==
    \/ UndoReorderTracks
    \/ UndoUndo
    \/ UndoRedo

SpecUndo == InitUndo /\ [][NextUndo]_vars

---------------------------------------------------------------------------
(* Specification of the markers: addMarker and removeMarker on any number  *)
(* of markers                                                              *)

InitMarkers == InitWith(EmptyTimeline)

MarkersAddMarker ==
    /\ nCalls < MaxMarkerCalls
    /\ \E timestamp \in Times : Apply(addMarker(State, timestamp), "addMarker", "mutator")

MarkersRemoveMarker ==
    /\ nCalls < MaxMarkerCalls
    /\ \E markerId \in MarkerIds :
          Apply(removeMarker(State, markerId), "removeMarker", "mutator")

NextMarkers ==
    \/ MarkersAddMarker
    \/ MarkersRemoveMarker

SpecMarkers == InitMarkers /\ [][NextMarkers]_vars

---------------------------------------------------------------------------
(* Specification of the view state: setPlayhead, setSelection and          *)
(* setZoomLevel between recorded commands, undo and redo                   *)

\* Selections passed to setSelection: none, or one clip of the timeline.
SelectionInputs ==
    {<<>>} \cup {<<[clipId |-> c.id, trackId |-> c.trackId]>> : c \in AllClips(timeline.tracks)}

\* Numbers passed to setZoomLevel: at and next to both limits, between them,
\* negative, and NaN.
ZoomInputs ==
    {<<z>> : z \in {-1, MinZoomLevel - 1, MinZoomLevel, MinZoomLevel + 1,
                    MaxZoomLevel - 1, MaxZoomLevel, MaxZoomLevel + 1}}
    \cup {<<>>}

SetPlayhead ==
    /\ nCalls < MaxCalls
    /\ \E timestamp \in Times : Apply(setPlayhead(State, timestamp), "setPlayhead", "view")

SetSelection ==
    /\ nCalls < MaxCalls
    /\ \E selection \in SelectionInputs :
          Apply(setSelection(State, selection), "setSelection", "view")

SetZoomLevel ==
    /\ nCalls < MaxCalls
    /\ \E zoomLevel \in ZoomInputs :
          Apply(setZoomLevel(State, zoomLevel), "setZoomLevel", "view")

NextView ==
    \/ AddTrack
    \/ Undo
    \/ Redo
    \/ SetPlayhead
    \/ SetSelection
    \/ SetZoomLevel

SpecView == Init /\ [][NextView]_vars

---------------------------------------------------------------------------
(* Specification of the calls that name an id nothing has: the ids are     *)
(* strings the caller passes, so a call may name an id that was never      *)
(* issued, the id of something removed, or the id of another kind of thing *)

\* Every id issued so far, an id below the first and the next one to issue.
AnyIds == 0..nextId

EffectIds(clip) == {effHeap[clip.effects][e].id : e \in 1..Len(effHeap[clip.effects])}

UnknownTrackIds == AnyIds \ TrackIds

UnknownClipIds == AnyIds \ ClipIds

UnknownMarkerIds == AnyIds \ MarkerIds

UnknownEffectIds(clip) == AnyIds \ EffectIds(clip)

UnknownRemoveTrack ==
    /\ nCalls < MaxCalls
    /\ \E trackId \in UnknownTrackIds :
          Apply(removeTrack(State, trackId), "removeTrack", "unknown")

UnknownAddClip ==
    /\ nCalls < MaxCalls
    /\ \E trackId \in UnknownTrackIds, clip \in ClipInputs :
          Apply(addClip(State, trackId, clip), "addClip", "unknown")

UnknownRemoveClip ==
    /\ nCalls < MaxCalls
    /\ \E clipId \in UnknownClipIds :
          Apply(removeClip(State, clipId), "removeClip", "unknown")

UnknownMoveClip ==
    /\ nCalls < MaxCalls
    /\ \E clipId \in UnknownClipIds, newTrackId \in AnyIds, newTimelineStart \in Times :
          Apply(moveClip(State, clipId, newTrackId, newTimelineStart),
                "moveClip", "unknown")

UnknownMoveClipTarget ==
    /\ nCalls < MaxCalls
    /\ \E clipId \in ClipIds, newTrackId \in UnknownTrackIds, newTimelineStart \in Times :
          Apply(moveClip(State, clipId, newTrackId, newTimelineStart),
                "moveClipTarget", "unknown")

UnknownTrimClip ==
    /\ nCalls < MaxCalls
    /\ \E clipId \in UnknownClipIds, newSourceRange \in TrimSourceInputs,
          newTimelineRange \in TrimTimelineInputs :
          Apply(trimClip(State, clipId, newSourceRange, newTimelineRange),
                "trimClip", "unknown")

UnknownSplitClip ==
    /\ nCalls < MaxCalls
    /\ \E clipId \in UnknownClipIds, splitPoint \in Times :
          Apply(splitClip(State, clipId, splitPoint), "splitClip", "unknown")

UnknownAddEffect ==
    /\ nCalls < MaxCalls
    /\ \E clipId \in UnknownClipIds :
          Apply(addEffect(State, clipId), "addEffect", "unknown")

UnknownRemoveEffect ==
    /\ nCalls < MaxCalls
    /\ \E clipId \in UnknownClipIds, effectId \in AnyIds :
          Apply(removeEffect(State, clipId, effectId), "removeEffect", "unknown")

UnknownRemoveEffectId ==
    /\ nCalls < MaxCalls
    /\ \E clip \in AllClips(timeline.tracks) :
          \E effectId \in UnknownEffectIds(clip) :
              Apply(removeEffect(State, clip.id, effectId), "removeEffectId", "unknown")

UnknownRemoveMarker ==
    /\ nCalls < MaxCalls
    /\ \E markerId \in UnknownMarkerIds :
          Apply(removeMarker(State, markerId), "removeMarker", "unknown")

NextUnknown ==
    \/ AddTrack
    \/ RemoveTrack
    \/ AddClip
    \/ RemoveClip
    \/ AddEffect
    \/ AddMarker
    \/ UnknownRemoveTrack
    \/ UnknownAddClip
    \/ UnknownRemoveClip
    \/ UnknownMoveClip
    \/ UnknownMoveClipTarget
    \/ UnknownTrimClip
    \/ UnknownSplitClip
    \/ UnknownAddEffect
    \/ UnknownRemoveEffect
    \/ UnknownRemoveEffectId
    \/ UnknownRemoveMarker

SpecUnknown == Init /\ [][NextUnknown]_vars

---------------------------------------------------------------------------
(* Specification of reorderTracks with any indices, on three tracks        *)

ReorderIndices == (-MaxReorderIndex)..MaxReorderIndex

ReorderAny ==
    /\ nCalls < MaxReorderCalls
    /\ \E fromIndex, toIndex \in ReorderIndices :
          Apply(reorderTracks(State, fromIndex, toIndex), "reorderTracks", "mutator")

SpecReorder == InitWith(ThreeTrackTimeline) /\ [][ReorderAny]_vars

---------------------------------------------------------------------------
(* FlowModel: the segment ledger                                           *)

\* Touching boundaries count as an overlap.
validateSegmentTimeRangeMut(fl, range) ==
    \E p \in 1..Len(fl.segments) :
        /\ compare(range.start, fl.segments[p].timerange.end) <= 0
        /\ compare(range.end, fl.segments[p].timerange.start) >= 0

\* validateSegmentTimeRange: TRUE when it throws.
validateSegmentTimeRange(fl, range) ==
    \E p \in 1..Len(fl.segments) :
        /\ compare(range.start, fl.segments[p].timerange.end) < 0
        /\ compare(range.end, fl.segments[p].timerange.start) > 0

\* newSegment of addSegment: the caller's fields and the flow's id.
NewSegment(fl, segment) ==
    [id |-> segment.id, flowId |-> fl.id, timerange |-> segment.timerange,
     objectIds |-> segment.objectIds, mediaTimerange |-> segment.mediaTimerange]

\* The pushed segment is not sorted into place.
addSegmentMut(fl, segment) ==
    IF validateSegmentTimeRange(fl, segment.timerange)
    THEN [flow |-> fl, result |-> "throw"]
    ELSE [flow |-> [fl EXCEPT !.segments = Append(fl.segments, NewSegment(fl, segment)),
                              !.generation = fl.generation + 1],
          result |-> "ok"]

\* The counter is advanced before the timerange is validated.
addSegmentCounted(fl, segment) ==
    IF validateSegmentTimeRange(fl, segment.timerange)
    THEN [flow |-> [fl EXCEPT !.generation = fl.generation + 1], result |-> "throw"]
    ELSE
    LET pushed == Append(fl.segments, NewSegment(fl, segment))
        sorted == sortBy(pushed, [p \in 1..Len(pushed) |-> pushed[p].timerange.start])
    IN  [flow |-> [fl EXCEPT !.segments = sorted, !.generation = fl.generation + 1],
         result |-> "ok"]

\* segment: the caller's id, timerange, objectIds and optional mediaTimerange.
addSegment(fl, segment) ==
    IF validateSegmentTimeRange(fl, segment.timerange)
    THEN [flow |-> fl, result |-> "throw"]
    ELSE
    LET pushed == Append(fl.segments, NewSegment(fl, segment))
        sorted == sortBy(pushed, [p \in 1..Len(pushed) |-> pushed[p].timerange.start])
    IN  [flow |-> [fl EXCEPT !.segments = sorted, !.generation = fl.generation + 1],
         result |-> "ok"]

\* Every segment is taken, whatever the range.
getSegmentsInRangeAll(fl, range) == fl.segments

getSegmentsInRange(fl, range) ==
    filter(fl.segments,
           [p \in 1..Len(fl.segments) |->
              /\ compare(fl.segments[p].timerange.start, range.end) < 0
              /\ compare(fl.segments[p].timerange.end, range.start) > 0])

\* The end of the timerange counts as inside.
getSegmentAtTimestampMut(fl, timestamp) ==
    LET at == findIndex([p \in 1..Len(fl.segments) |->
                           /\ compare(timestamp, fl.segments[p].timerange.start) >= 0
                           /\ compare(timestamp, fl.segments[p].timerange.end) <= 0])
    IN  IF at = -1 THEN <<>> ELSE <<fl.segments[at + 1]>>

\* getSegmentAtTimestamp: <<>> for undefined, else <<segment>>.
getSegmentAtTimestamp(fl, timestamp) ==
    LET at == findIndex([p \in 1..Len(fl.segments) |->
                           isWithinRange(timestamp, fl.segments[p].timerange)])
    IN  IF at = -1 THEN <<>> ELSE <<fl.segments[at + 1]>>

\* getTotalDuration: <<>> for null, else <<duration>>.
getTotalDuration(fl) ==
    IF Len(fl.segments) = 0 THEN <<>>
    ELSE <<subtract(fl.segments[Len(fl.segments)].timerange.end,
                    fl.segments[1].timerange.start)>>

hasContinuousCoverage(fl) ==
    \/ Len(fl.segments) <= 1
    \/ \A i \in 2..Len(fl.segments) :
          compare(fl.segments[i - 1].timerange.end, fl.segments[i].timerange.start) = 0

\* The loop of getGaps from position i (1-based position of the current segment).
RECURSIVE gapsFrom(_, _)
gapsFrom(fl, i) ==
    IF i > Len(fl.segments) THEN <<>>
    ELSE LET prevEnd == fl.segments[i - 1].timerange.end
             currStart == fl.segments[i].timerange.start
         IN  (IF compare(prevEnd, currStart) < 0
              THEN <<[start |-> prevEnd, end |-> currStart]>> ELSE <<>>)
             \o gapsFrom(fl, i + 1)

getGaps(fl) == gapsFrom(fl, 2)

\* The end of the source segment is kept instead of the smaller of the ends.
extractSegmentMut(segment, range, k) ==
    LET start == IF compare(segment.timerange.start, range.start) > 0
                 THEN segment.timerange.start ELSE range.start
    IN  [id |-> k, timerange |-> [start |-> start, end |-> segment.timerange.end],
         objectIds |-> segment.objectIds, mediaTimerange |-> segment.mediaTimerange]

\* One pass of the loop of extractRange: the segment of the new flow made
\* from a source segment, with the k-th fresh id.
extractSegment(segment, range, k) ==
    LET start == IF compare(segment.timerange.start, range.start) > 0
                 THEN segment.timerange.start ELSE range.start
        end == IF compare(segment.timerange.end, range.end) < 0
               THEN segment.timerange.end ELSE range.end
        trimmed == \/ compare(start, segment.timerange.start) # 0
                   \/ compare(end, segment.timerange.end) # 0
        mediaTimerange ==
            IF segment.mediaTimerange # <<>> /\ trimmed
            THEN LET startOffset == subtract(start, segment.timerange.start)
                     dur == subtract(end, start)
                     newMediaStart == add(segment.mediaTimerange[1].start, startOffset)
                 IN  <<[start |-> newMediaStart, end |-> add(newMediaStart, dur)]>>
            ELSE segment.mediaTimerange
    IN  [id |-> k, timerange |-> [start |-> start, end |-> end],
         objectIds |-> segment.objectIds, mediaTimerange |-> mediaTimerange]

\* The loop of extractRange over the relevant segments still to be added; a
\* throw of addSegment ends extractRange.
RECURSIVE extractLoop(_, _, _, _)
extractLoop(newFlow, relevantSegments, range, k) ==
    IF relevantSegments = <<>> THEN [flow |-> newFlow, result |-> "ok"]
    ELSE LET r == addSegment(newFlow, extractSegment(Head(relevantSegments), range, k))
         IN  IF r.result = "throw" THEN [flow |-> newFlow, result |-> "throw"]
             ELSE extractLoop(r.flow, Tail(relevantSegments), range, k + 1)

\* extractRange: the new flow (or a throw); the source flow is only read.
extractRange(fl, range) ==
    extractLoop([id |-> "extract", segments |-> <<>>, generation |-> 0],
                getSegmentsInRange(fl, range), range, 1)

\* The clone is handed the segments array of the source.
cloneShared(fl, cloneId) ==
    [flow |-> [id |-> cloneId, generation |-> 0, segments |-> fl.segments],
     array |-> "source"]

\* clone: the new FlowModel; segments.map builds a new array of new segment
\* objects (array "new"; "source" would be the array of the source itself),
\* each with a fresh id and the clone's id as flowId.
clone(fl, cloneId) ==
    [flow |-> [id |-> cloneId, generation |-> 0,
               segments |-> [p \in 1..Len(fl.segments) |->
                               [fl.segments[p] EXCEPT !.id = Len(fl.segments) + p,
                                                      !.flowId = cloneId]]],
     array |-> "new"]

FlowTimes == {Tick(h) : h \in 0..MaxFlowTick}

FlowRanges == {r \in [start : FlowTimes, end : FlowTimes] : compare(r.start, r.end) <= 0}

MediaOffset == create(2, 0)

\* The mediaTimerange passed with a timerange: none, or the range shifted.
MediaInputs(range) ==
    {<<>>, <<[start |-> add(range.start, MediaOffset),
              end |-> add(range.end, MediaOffset)]>>}

InitFlow == InitWith(EmptyTimeline)

\* The other holder of an array sees what addSegment made of it.
Shared(other, array, segments) ==
    IF array = "source" THEN [other EXCEPT !.segments = segments] ELSE other

\* addSegment on the source flow while it holds fewer segments than limit.
AddSegmentBelow(limit) ==
    /\ Len(flow.segments) < limit
    /\ \E range \in FlowRanges :
          \E mediaTimerange \in MediaInputs(range) :
              LET r == addSegment(flow, [id |-> flow.generation + 1,
                                         timerange |-> range,
                                         objectIds |-> <<flow.generation + 1>>,
                                         mediaTimerange |-> mediaTimerange])
              IN  /\ flow' = r.flow
                  /\ flowCall' = [op |-> "addSegment", arg |-> range,
                                  result |-> r.result, value |-> <<>>]
                  /\ copy' = IF copy = <<>> THEN <<>>
                             ELSE <<[copy[1] EXCEPT !.flow =
                                       Shared(@, copy[1].array, r.flow.segments)]>>
                  /\ UNCHANGED <<tlVars, tsVars>>

AddSegment == AddSegmentBelow(MaxSegments)

GetSegmentsInRange ==
    \E range \in FlowRanges :
        /\ flowCall' = [op |-> "getSegmentsInRange", arg |-> range, result |-> "ok",
                        value |-> getSegmentsInRange(flow, range)]
        /\ UNCHANGED <<flow, copy, tlVars, tsVars>>

GetSegmentAtTimestamp ==
    \E timestamp \in FlowTimes :
        /\ flowCall' = [op |-> "getSegmentAtTimestamp", arg |-> timestamp, result |-> "ok",
                        value |-> getSegmentAtTimestamp(flow, timestamp)]
        /\ UNCHANGED <<flow, copy, tlVars, tsVars>>

GetTotalDuration ==
    /\ flowCall' = [op |-> "getTotalDuration", arg |-> <<>>, result |-> "ok",
                    value |-> getTotalDuration(flow)]
    /\ UNCHANGED <<flow, copy, tlVars, tsVars>>

HasContinuousCoverage ==
    /\ flowCall' = [op |-> "hasContinuousCoverage", arg |-> <<>>, result |-> "ok",
                    value |-> hasContinuousCoverage(flow)]
    /\ UNCHANGED <<flow, copy, tlVars, tsVars>>

GetGaps ==
    /\ flowCall' = [op |-> "getGaps", arg |-> <<>>, result |-> "ok",
                    value |-> getGaps(flow)]
    /\ UNCHANGED <<flow, copy, tlVars, tsVars>>

ExtractRange ==
    \E range \in FlowRanges :
        LET r == extractRange(flow, range)
        IN  /\ flowCall' = [op |-> "extractRange", arg |-> range,
                            result |-> r.result, value |-> r.flow]
            /\ UNCHANGED <<flow, copy, tlVars, tsVars>>

Clone ==
    LET r == clone(flow, "clone")
    IN  /\ copy' = <<r>>
        /\ flowCall' = [op |-> "clone", arg |-> <<>>, result |-> "ok", value |-> r.flow]
        /\ UNCHANGED <<flow, tlVars, tsVars>>

\* addSegment on the flow that clone() returned, of a segment without
\* mediaTimerange.
CopyAddSegment ==
    /\ copy # <<>>
    /\ copy[1].flow.generation < MaxCopyAdds
    /\ \E range \in FlowRanges :
          LET id == 2 * MaxSegments + copy[1].flow.generation + 1
              r == addSegment(copy[1].flow, [id |-> id,
                                             timerange |-> range,
                                             objectIds |-> <<id>>,
                                             mediaTimerange |-> <<>>])
          IN  /\ copy' = <<[copy[1] EXCEPT !.flow = r.flow]>>
              /\ flow' = Shared(flow, copy[1].array, r.flow.segments)
              /\ flowCall' = [op |-> "copy.addSegment", arg |-> range,
                              result |-> r.result, value |-> <<>>]
              /\ UNCHANGED <<tlVars, tsVars>>

ShortAddSegment == AddSegmentBelow(MaxShortSegments)

NextFlow ==
    \/ AddSegment
    \/ GetGaps
    \/ ExtractRange

SpecFlow == InitFlow /\ [][NextFlow]_vars

\* Every method of FlowModel on a flow of at most MaxShortSegments segments.
NextQuery ==
    \/ ShortAddSegment
    \/ GetSegmentsInRange
    \/ GetSegmentAtTimestamp
    \/ GetTotalDuration
    \/ HasContinuousCoverage
    \/ GetGaps
    \/ ExtractRange
    \/ Clone

SpecQuery == InitFlow /\ [][NextQuery]_vars

\* A flow, its clone, addSegment on either and extractRange on the flow.
NextClone ==
    \/ ShortAddSegment
    \/ Clone
    \/ CopyAddSegment
    \/ ExtractRange

SpecClone == InitFlow /\ [][NextClone]_vars

---------------------------------------------------------------------------
(* TimestampUtils: the arguments are drawn at the start, one call follows  *)

SecondsInputs == -1..MaxSecondsInput

\* Around every multiple of half a second up to MaxNanoHalves, both signs.
NanosecondInputs ==
    {k * (NANOSECONDS_PER_SECOND \div 2) + d :
        k \in (-MaxNanoHalves)..MaxNanoHalves, d \in {-1, 0, 1}}

\* Normalized timestamps with integer fields.
NormTimes ==
    [seconds : SecondsInputs,
     nanoseconds : {n \in NanosecondInputs : 0 <= n /\ n < NANOSECONDS_PER_SECOND}]

\* Timestamps passed to compare, normalized or not.
CompareTimes ==
    [seconds : (-1)..MaxCompareSeconds,
     nanoseconds : {-1, 0, 1, NANOSECONDS_PER_SECOND - 1}]

\* The characters of the strings passed to fromString: digits, the
\* separator, a sign and a letter.
StringChars == {"1", "2", ":", "-", "a"}

StringInputs == UNION {[1..n -> StringChars] : n \in 0..MaxStrLen}

MillisecondInputs == (-MaxMilliseconds)..MaxMilliseconds

TimeInputs ==
    {[op |-> "input", kind |-> "integers", arg |-> <<s, ns>>, value |-> <<>>] :
        s \in SecondsInputs, ns \in NanosecondInputs}
    \cup
    {[op |-> "input", kind |-> "timestamps", arg |-> <<a, b>>, value |-> <<>>] :
        a \in NormTimes, b \in NormTimes}
    \cup
    {[op |-> "input", kind |-> "triple", arg |-> <<a, b, c>>, value |-> <<>>] :
        a \in CompareTimes, b \in CompareTimes, c \in CompareTimes}
    \cup
    {[op |-> "input", kind |-> "string", arg |-> <<str>>, value |-> <<>>] :
        str \in StringInputs}
    \cup
    {[op |-> "input", kind |-> "milliseconds", arg |-> <<ms>>, value |-> <<>>] :
        ms \in MillisecondInputs}

InitTime == \E call \in TimeInputs : InitAll(EmptyTimeline, call)

Create ==
    /\ tsCall.op = "input" /\ tsCall.kind = "integers"
    /\ tsCall' = [tsCall EXCEPT !.op = "create",
                                !.value = create(tsCall.arg[1], tsCall.arg[2])]
    /\ UNCHANGED <<tlVars, flowVars>>

\* add(a, b), subtract(a, b) and subtract(add(a, b), b).
AddSubtract ==
    /\ tsCall.op = "input" /\ tsCall.kind = "timestamps"
    /\ LET a == tsCall.arg[1]
           b == tsCall.arg[2]
       IN  tsCall' = [tsCall EXCEPT !.op = "addSubtract",
                                    !.value = [sum |-> add(a, b),
                                               difference |-> subtract(a, b),
                                               back |-> subtract(add(a, b), b)]]
    /\ UNCHANGED <<tlVars, flowVars>>

\* fromString(toString(a)) and timeRangeFromString(timeRangeToString([a, b))).
RoundTrip ==
    /\ tsCall.op = "input" /\ tsCall.kind = "timestamps"
    /\ LET a == tsCall.arg[1]
           range == [start |-> tsCall.arg[1], end |-> tsCall.arg[2]]
       IN  tsCall' = [tsCall EXCEPT !.op = "roundTrip",
                                    !.value = [str |-> toString(a),
                                               ts |-> fromString(toString(a)),
                                               range |-> timeRangeFromString(
                                                            timeRangeToString(range))]]
    /\ UNCHANGED <<tlVars, flowVars>>

\* compare on each pair of a, b, c.
Compare ==
    /\ tsCall.op = "input" /\ tsCall.kind = "triple"
    /\ LET a == tsCall.arg[1]
           b == tsCall.arg[2]
           c == tsCall.arg[3]
       IN  tsCall' = [tsCall EXCEPT !.op = "compare",
                                    !.value = [ab |-> compare(a, b),
                                               ba |-> compare(b, a),
                                               aa |-> compare(a, a),
                                               bc |-> compare(b, c),
                                               ac |-> compare(a, c)]]
    /\ UNCHANGED <<tlVars, flowVars>>

FromString ==
    /\ tsCall.op = "input" /\ tsCall.kind = "string"
    /\ tsCall' = [tsCall EXCEPT !.op = "fromString",
                                !.value = fromString(tsCall.arg[1])]
    /\ UNCHANGED <<tlVars, flowVars>>

\* fromMilliseconds(ms) and toMilliseconds of it.
FromMilliseconds ==
    /\ tsCall.op = "input" /\ tsCall.kind = "milliseconds"
    /\ LET ts == fromMilliseconds(tsCall.arg[1])
       IN  tsCall' = [tsCall EXCEPT !.op = "fromMilliseconds",
                                    !.value = [ts |-> ts, back |-> toMilliseconds(ts)]]
    /\ UNCHANGED <<tlVars, flowVars>>

NextTime ==
    \/ FromMilliseconds
    \/ Create
    \/ AddSubtract
    \/ RoundTrip
    \/ Compare
    \/ FromString

SpecTime == InitTime /\ [][NextTime]_vars

---------------------------------------------------------------------------
(* Properties                                                              *)

LastCall == recent[Len(recent)]

\* The step is a call of op with this outcome (every step that changes a
\* variable of the manager is one call).
Called(op, result) ==
    /\ recent' # <<>>
    /\ recent'[Len(recent')].op = op
    /\ recent'[Len(recent')].result = result
    /\ tlVars' # tlVars

MutatorOk(call) == call.kind = "mutator" /\ call.result = "ok"

RangesOverlap(a, b) == compare(a.start, b.end) < 0 /\ compare(a.end, b.start) > 0

\* C1: a successful mutator followed by undo() leaves the observable timeline
\* (tracks and indices, clips with ranges and effects, markers, duration) as
\* it was before the mutator.
C1_UndoRestoresPriorState ==
    [][(recent # <<>> /\ MutatorOk(LastCall) /\ Called("undo", "ok"))
          => Obs' = preObs]_vars

\* C2: no two distinct clips of a track have overlapping timelineRanges
\* (a.start < b.end and a.end > b.start).
C2_NoClipOverlap ==
    \A t \in 1..Len(timeline.tracks) :
        \A p, q \in 1..Len(timeline.tracks[t].clips) :
            p # q => ~RangesOverlap(timeline.tracks[t].clips[p].timelineRange,
                                    timeline.tracks[t].clips[q].timelineRange)

\* A clip was just added, moved or trimmed onto a track that holds another.
C2_Witness ==
    /\ recent # <<>>
    /\ LastCall.op \in {"addClip", "moveClip", "trimClip"}
    /\ LastCall.result = "ok"
    /\ \E t \in 1..Len(timeline.tracks) : Len(timeline.tracks[t].clips) >= 2
    /\ Obs # preObs

\* C3: every track's clips are in ascending order of timelineRange.start.
C3_ClipsSorted ==
    \A t \in 1..Len(timeline.tracks) :
        \A p \in 1..(Len(timeline.tracks[t].clips) - 1) :
            compare(timeline.tracks[t].clips[p].timelineRange.start,
                    timeline.tracks[t].clips[p + 1].timelineRange.start) <= 0

\* C5: the track at position p of the track sequence has index p (0-based).
C5_TrackIndicesContiguous ==
    \A p \in 1..Len(timeline.tracks) : timeline.tracks[p].index = p - 1

\* The clip of an observed timeline with this id.
ObsClip(obs, clipId) ==
    CHOOSE c \in UNION {{obs.tracks[t].clips[p] : p \in 1..Len(obs.tracks[t].clips)} :
                           t \in 1..Len(obs.tracks)} : c.id = clipId

\* C6: splitClip succeeds only when the split point lies strictly inside the
\* clip's timelineRange (start < splitPoint < end).
C6_SplitOnlyStrictlyInside ==
    (recent # <<>> /\ LastCall.op = "splitClip" /\ LastCall.result = "ok")
        => LET command == history[historyIndex + 1]
               original == ObsClip(preObs, command.data.originalClipId)
           IN  /\ compare(original.timelineRange.start, command.data.splitPoint) < 0
               /\ compare(command.data.splitPoint, original.timelineRange.end) < 0

\* C7: a call of addClip, moveClip, trimClip or splitClip that fails its
\* validation changes nothing (tracks, clips, duration, history, cursor) and
\* notifies no listener.
C7_FailedValidationChangesNothing ==
    [][(\E op \in {"addClip", "moveClip", "trimClip", "splitClip"} : Called(op, "throw"))
          => /\ timeline' = timeline
             /\ effHeap' = effHeap
             /\ history' = history
             /\ historyIndex' = historyIndex
             /\ emitted' = <<>>]_vars

\* A trim was just rejected on a timeline that has a history.
C7_Witness ==
    /\ recent # <<>>
    /\ LastCall.op = "trimClip"
    /\ LastCall.result = "throw"
    /\ history # <<>>

\* C8: the history never holds more than maxHistorySize commands and the
\* cursor stays within -1 .. length-1; a successful undo() moves the cursor
\* down by one and undo() succeeds exactly while the cursor is >= 0, so at
\* most maxHistorySize undo() calls in a row succeed.
C8_HistoryBounded ==
    /\ [](/\ Len(history) <= MaxHistorySize
          /\ -1 <= historyIndex
          /\ historyIndex <= Len(history) - 1)
    /\ [][/\ Called("undo", "ok") =>
               (historyIndex >= 0 /\ historyIndex' = historyIndex - 1
                /\ history' = history)
          /\ Called("undo", "false") => historyIndex = -1]_vars

\* A command was just recorded on a full history with the cursor at its end.
C8_Witness ==
    /\ recent # <<>>
    /\ MutatorOk(LastCall)
    /\ prePos = <<MaxHistorySize, MaxHistorySize - 1>>
    /\ Len(history) = MaxHistorySize

LastN(seq, n) == IF Len(seq) <= n THEN seq ELSE SubSeq(seq, Len(seq) - n + 1, Len(seq))

CommandType(op) ==
    CASE op = "addTrack" -> "add_track"
      [] op = "removeTrack" -> "remove_track"
      [] op = "reorderTracks" -> "reorder_tracks"
      [] op = "addClip" -> "add_clip"
      [] op = "removeClip" -> "remove_clip"
      [] op = "moveClip" -> "move_clip"
      [] op = "trimClip" -> "trim_clip"
      [] op = "splitClip" -> "split_clip"
      [] op = "addEffect" -> "add_effect"
      [] op = "removeEffect" -> "remove_effect"
      [] op = "addMarker" -> "add_marker"
      [] op = "removeMarker" -> "remove_marker"

\* C9: right after a successful history-recording mutator canRedo() is false
\* and the history is the commands up to the old cursor followed by the new
\* command, which sits at the cursor.
C9_RecordingDiscardsRedo ==
    [][(recent' # <<>> /\ MutatorOk(recent'[Len(recent')])
        /\ Called(recent'[Len(recent')].op, "ok"))
          => /\ history' # <<>>
             /\ historyIndex' = Len(history') - 1
             /\ history'[Len(history')].type = CommandType(recent'[Len(recent')].op)
             /\ history' = LastN(Append(SubSeq(history, 1, historyIndex + 1),
                                        history'[Len(history')]), MaxHistorySize)]_vars

\* A command was just recorded while the cursor was not at the end.
C9_Witness ==
    /\ recent # <<>>
    /\ MutatorOk(LastCall)
    /\ prePos[2] < prePos[1] - 1
    /\ historyIndex = Len(history) - 1

\* C10: a successful mutator, then undo(), then redo() leaves the observable
\* timeline equal to the state right after the mutator.
C10_RedoRestoresPostState ==
    [][(Len(recent) >= 2 /\ MutatorOk(recent[Len(recent) - 1])
        /\ LastCall.op = "undo" /\ LastCall.result = "ok"
        /\ Called("redo", "ok"))
          => Obs' = preObs]_vars

\* A mutator, an undo and a redo were called in a row and all succeeded.
C10_Witness ==
    /\ Len(recent) = 3
    /\ MutatorOk(recent[1])
    /\ recent[2].op = "undo" /\ recent[2].result = "ok"
    /\ recent[3].op = "redo" /\ recent[3].result = "ok"

\* C4: the segments of a flow built by addSegment are pairwise disjoint and
\* sorted ascending by start.
C4_SegmentsDisjointSorted ==
    /\ \A p, q \in 1..Len(flow.segments) :
          p # q => ~RangesOverlap(flow.segments[p].timerange, flow.segments[q].timerange)
    /\ \A p \in 1..(Len(flow.segments) - 1) :
          compare(flow.segments[p].timerange.start,
                  flow.segments[p + 1].timerange.start) <= 0

\* A segment was just added in front of one added before it.
C4_Witness ==
    /\ flowCall.op = "addSegment"
    /\ flowCall.result = "ok"
    /\ \E p \in 1..(Len(flow.segments) - 1) :
          /\ flow.segments[p].id = flow.generation
          /\ compare(flow.segments[p].timerange.start,
                     flow.segments[p + 1].timerange.start) < 0

\* C11: undo() with the cursor at -1 and redo() with the cursor at the last
\* entry return false, emit nothing and leave the timeline, the history and
\* the cursor as they were.
C11_InapplicableUndoRedoIsNoOp ==
    [][/\ (historyIndex = -1 /\ \E res \in {"ok", "false", "throw"} : Called("undo", res))
            => /\ Called("undo", "false")
               /\ emitted' = <<>>
               /\ <<timeline, effHeap, history, historyIndex>>' =
                  <<timeline, effHeap, history, historyIndex>>
       /\ (historyIndex = Len(history) - 1
           /\ \E res \in {"ok", "false", "throw"} : Called("redo", res))
            => /\ Called("redo", "false")
               /\ emitted' = <<>>
               /\ <<timeline, effHeap, history, historyIndex>>' =
                  <<timeline, effHeap, history, historyIndex>>]_vars

\* undo() was just refused although the history holds a command.
C11_Witness ==
    /\ recent # <<>>
    /\ LastCall.op = "undo"
    /\ LastCall.result = "false"
    /\ history # <<>>

\* The clips of the track with this id in an observed timeline.
ObsTrackClips(obs, trackId) ==
    LET t == CHOOSE p \in 1..Len(obs.tracks) : obs.tracks[p].id = trackId
    IN  obs.tracks[t].clips

\* C12: a successful splitClip(clip, p) puts first and second in the place of
\* the clip: first.timelineRange = [clip.start, p), second.timelineRange =
\* [p, clip.end), first.sourceRange = [src.start, src.start + (p - clip.start)),
\* second.sourceRange = [src.start + (p - clip.start), src.end); every other
\* clip and track stays where it was.
C12_SplitPartitions ==
    (recent # <<>> /\ LastCall.op = "splitClip" /\ LastCall.result = "ok")
        => LET command == history[historyIndex + 1]
               p == command.data.splitPoint
               original == ObsClip(preObs, command.data.originalClipId)
               before == ObsTrackClips(preObs, command.undoData.trackId)
               after == ObsTrackClips(Obs, command.undoData.trackId)
               k == command.undoData.index + 1
               first == after[k]
               second == after[k + 1]
               offset == subtract(p, original.timelineRange.start)
           IN  /\ before[k] = original
               /\ Len(after) = Len(before) + 1
               /\ first.id = command.data.firstClipId
               /\ second.id = command.data.secondClipId
               /\ first.timelineRange = [start |-> original.timelineRange.start, end |-> p]
               /\ second.timelineRange = [start |-> p, end |-> original.timelineRange.end]
               /\ first.sourceRange = [start |-> original.sourceRange.start,
                                       end |-> add(original.sourceRange.start, offset)]
               /\ second.sourceRange = [start |-> add(original.sourceRange.start, offset),
                                        end |-> original.sourceRange.end]
               /\ SubSeq(after, 1, k - 1) = SubSeq(before, 1, k - 1)
               /\ SubSeq(after, k + 2, Len(after)) = SubSeq(before, k + 1, Len(before))
               /\ \A t \in 1..Len(Obs.tracks) :
                     Obs.tracks[t].id # command.undoData.trackId
                        => Obs.tracks[t] = preObs.tracks[t]
               /\ Len(Obs.tracks) = Len(preObs.tracks)

\* A clip was just split at a point strictly inside it.
C12_Witness ==
    /\ recent # <<>>
    /\ LastCall.op = "splitClip"
    /\ LastCall.result = "ok"
    /\ LET command == history[historyIndex + 1]
           original == ObsClip(preObs, command.data.originalClipId)
       IN  /\ compare(original.timelineRange.start, command.data.splitPoint) < 0
           /\ compare(command.data.splitPoint, original.timelineRange.end) < 0

\* The largest timelineRange.end among these clips, or zero when there is none.
LargestEnd(clips) ==
    IF clips = {} THEN [seconds |-> 0, nanoseconds |-> 0]
    ELSE LET ends == {c.timelineRange.end : c \in clips}
         IN  CHOOSE e \in ends : \A f \in ends : compare(f, e) <= 0

Touches(a, b) == compare(a.start, b.end) = 0 \/ compare(a.end, b.start) = 0

\* C14: addSegment with a timerange that overlaps an existing segment (the
\* half-open test a.start < b.end and a.end > b.start) throws and leaves the flow (segments, order, generation) as it was;
\* a timerange that only touches existing segments at a boundary is accepted.
C14_OverlapRejectedTouchAccepted ==
    [][flowCall'.op = "addSegment" =>
         LET range == flowCall'.arg
             segs == {flow.segments[p].timerange : p \in 1..Len(flow.segments)}
         IN  /\ (\E seg \in segs : RangesOverlap(range, seg))
                   => (flowCall'.result = "throw" /\ flow' = flow)
             /\ ((\E seg \in segs : Touches(range, seg))
                   /\ ~(\E seg \in segs : RangesOverlap(range, seg)))
                   => (/\ flowCall'.result = "ok"
                       /\ Len(flow'.segments) = Len(flow.segments) + 1)]_vars

\* An overlapping timerange was just rejected by a flow that holds two
\* segments of positive length meeting at a boundary.
C14_Witness ==
    /\ flowCall.op = "addSegment"
    /\ flowCall.result = "throw"
    /\ \E p, q \in 1..Len(flow.segments) :
          /\ compare(flow.segments[p].timerange.start, flow.segments[p].timerange.end) < 0
          /\ compare(flow.segments[q].timerange.start, flow.segments[q].timerange.end) < 0
          /\ compare(flow.segments[p].timerange.end, flow.segments[q].timerange.start) = 0
          /\ RangesOverlap(flowCall.arg, flow.segments[p].timerange)


\* The number of ranges of a sequence that contain t.
Containing(ranges, t) ==
    Cardinality({p \in 1..Len(ranges) : isWithinRange(t, ranges[p])})

\* C15: for a flow with at least one segment, the ranges returned by getGaps()
\* and the segment timeranges tile [first.start, last.end): every timestamp of
\* that interval lies in exactly one segment or exactly one gap, never in both.
C15_GapsAndSegmentsTile ==
    (flowCall.op = "getGaps" /\ Len(flow.segments) >= 1) =>
        LET segs == [p \in 1..Len(flow.segments) |-> flow.segments[p].timerange]
            span == [start |-> segs[1].start, end |-> segs[Len(segs)].end]
        IN  \A t \in FlowTimes :
                isWithinRange(t, span) =>
                    Containing(segs, t) + Containing(flowCall.value, t) = 1


\* The range lies within [first.start, last.end] of the flow and no gap of
\* the flow intersects it.
CoversContinuously(fl, range) ==
    /\ Len(fl.segments) >= 1
    /\ compare(fl.segments[1].timerange.start, range.start) <= 0
    /\ compare(range.end, fl.segments[Len(fl.segments)].timerange.end) <= 0
    /\ \A g \in 1..Len(getGaps(fl)) : ~RangesOverlap(getGaps(fl)[g], range)

RECURSIVE Intersections(_, _)
Intersections(segs, range) ==
    IF segs = <<>> THEN <<>>
    ELSE LET seg == Head(segs).timerange
             lo == IF compare(seg.start, range.start) >= 0 THEN seg.start ELSE range.start
             hi == IF compare(seg.end, range.end) <= 0 THEN seg.end ELSE range.end
         IN  (IF RangesOverlap(seg, range) THEN <<[start |-> lo, end |-> hi]>> ELSE <<>>)
             \o Intersections(Tail(segs), range)

\* C17: the flow returned by extractRange(range) has generation 0 and holds,
\* for each source segment overlapping the range, one segment whose timerange
\* is the intersection with the range, in source order.
C17_ExtractedFlowIsFreshAndClipped ==
    (flowCall.op = "extractRange" /\ flowCall.result = "ok") =>
        /\ flowCall.value.generation = 0
        /\ [p \in 1..Len(flowCall.value.segments) |-> flowCall.value.segments[p].timerange]
              = Intersections(flow.segments, flowCall.arg)

C18_CreateNormalizes ==
    tsCall.op = "create" =>
        LET s == tsCall.arg[1]
            ns == tsCall.arg[2]
        IN  /\ 0 <= tsCall.value.nanoseconds
            /\ tsCall.value.nanoseconds < NANOSECONDS_PER_SECOND
            /\ tsCall.value = [seconds |-> s + (ns \div NANOSECONDS_PER_SECOND),
                               nanoseconds |-> ns % NANOSECONDS_PER_SECOND]

\* C19: for normalized a and b, subtract(add(a, b), b) = a, and add and
\* subtract return nanoseconds in [0, 1e9).
C19_AddThenSubtractIsIdentity ==
    tsCall.op = "addSubtract" =>
        /\ tsCall.value.back = tsCall.arg[1]
        /\ \A t \in {tsCall.value.sum, tsCall.value.difference, tsCall.value.back} :
              0 <= t.nanoseconds /\ t.nanoseconds < NANOSECONDS_PER_SECOND

\* The addition carried into the seconds and the subtraction borrowed from
\* them.
C19_Witness ==
    /\ tsCall.op = "addSubtract"
    /\ tsCall.arg[1].nanoseconds + tsCall.arg[2].nanoseconds >= NANOSECONDS_PER_SECOND
    /\ tsCall.arg[1].nanoseconds < tsCall.arg[2].nanoseconds
    /\ tsCall.arg[1].seconds < 0

\* C20: for a normalized timestamp t with integer fields
\* fromString(toString(t)) = t, and for a range r of such timestamps
\* timeRangeFromString(timeRangeToString(r)) = r.
C20_StringRoundTrip ==
    tsCall.op = "roundTrip" =>
        /\ tsCall.value.ts = [result |-> "ok", value |-> tsCall.arg[1]]
        /\ tsCall.value.range =
              [result |-> "ok",
               value |-> [start |-> tsCall.arg[1], end |-> tsCall.arg[2]]]

\* A timestamp with negative seconds and several digits in both fields went
\* through the text form.
C20_Witness ==
    /\ tsCall.op = "roundTrip"
    /\ tsCall.arg[1].seconds < 0
    /\ tsCall.arg[1].nanoseconds = NANOSECONDS_PER_SECOND - 1
    /\ tsCall.arg[2].seconds = MaxSecondsInput
    /\ Len(tsCall.value.str) > 3


\* C21: compare is a total order by (seconds, nanoseconds): its values are
\* -1, 0, 1; compare(a, b) = -compare(b, a); compare(a, a) = 0; compare(a, b)
\* is 0 only for equal fields; a <= b and b <= c give a <= c.
C21_CompareIsTotalOrder ==
    tsCall.op = "compare" =>
        LET a == tsCall.arg[1]
            b == tsCall.arg[2]
            v == tsCall.value
        IN  /\ v.ab \in {-1, 0, 1}
            /\ v.ab = -v.ba
            /\ v.aa = 0
            /\ (v.ab = 0) => (a.seconds = b.seconds /\ a.nanoseconds = b.nanoseconds)
            /\ (v.ab <= 0 /\ v.bc <= 0) => v.ac <= 0
            /\ (v.ab < 0) <=> (\/ a.seconds < b.seconds
                               \/ a.seconds = b.seconds /\ a.nanoseconds < b.nanoseconds)

\* a and b differ only in their nanoseconds and c comes after both.
C21_Witness ==
    /\ tsCall.op = "compare"
    /\ tsCall.arg[1].seconds = tsCall.arg[2].seconds
    /\ tsCall.arg[1].nanoseconds < tsCall.arg[2].nanoseconds
    /\ tsCall.arg[2].seconds < tsCall.arg[3].seconds
    /\ tsCall.value.ab = -1 /\ tsCall.value.bc = -1 /\ tsCall.value.ac = -1

\* The positions of ":" in a string.
Colons(str) == {p \in 1..Len(str) : str[p] = ":"}

\* An optional "-" in front of one or more decimal digits.
IsIntegerText(str) ==
    LET digits == IF str # <<>> /\ Head(str) = "-" THEN Tail(str) ELSE str
    IN  digits # <<>> /\ \A p \in 1..Len(digits) : isDigit(digits[p])

\* Exactly two integer components separated by a single ":".
IsTimestampText(str) ==
    /\ Cardinality(Colons(str)) = 1
    /\ LET p == CHOOSE q \in Colons(str) : TRUE
       IN  /\ IsIntegerText(SubSeq(str, 1, p - 1))
           /\ IsIntegerText(SubSeq(str, p + 1, Len(str)))

\* C22: fromString(str) returns a timestamp exactly when str is two integer
\* components separated by a single ":", and fails for every other input
\* (one component, three or more, an empty or a non-integer component).
C22_FromStringRejectsMalformed ==
    tsCall.op = "fromString" =>
        ((tsCall.value.result = "ok") <=> IsTimestampText(tsCall.arg[1]))


\* C23: a successful undo() moves the cursor down by one and a successful
\* redo() moves it up by one, neither changes the history list; with k
\* commands undone and not redone, canUndo() holds iff k is less than the
\* number of recorded commands, canRedo() holds iff k > 0, and a redo hands out
\* the command the latest not yet redone undo handed out.
C23_CursorArithmetic ==
    [][/\ Called("undo", "ok") =>
             (historyIndex' = historyIndex - 1 /\ history' = history)
       /\ Called("redo", "ok") =>
             /\ historyIndex' = historyIndex + 1
             /\ history' = history
             /\ undone # <<>>
             /\ emitted'[Len(emitted')].payload = Head(undone)
       /\ Len(undone') = Len(history') - 1 - historyIndex'
       /\ (historyIndex' >= 0) <=> (Len(undone') < Len(history'))
       /\ (historyIndex' < Len(history') - 1) <=> (undone' # <<>>)]_vars

\* Two different commands were undone and the second redo has just handed out
\* the one undone first.
C23_Witness ==
    /\ Len(recent) = 3
    /\ recent[1].op = "undo" /\ recent[1].result = "ok"
    /\ recent[2].op = "redo" /\ recent[2].result = "ok"
    /\ recent[3].op = "redo" /\ recent[3].result = "ok"
    /\ undone = <<>>
    /\ Len(history) >= 2
    /\ historyIndex = Len(history) - 1
    /\ history[Len(history)] # history[Len(history) - 1]
    /\ emitted[Len(emitted)].payload = history[Len(history)]


\* The clips with this id in a track.
ClipsWithId(track, clipId) ==
    {c \in 1..Len(track.clips) : track.clips[c].id = clipId}

\* C24: whatever clip, target track and start moveClip is called with, a
\* successful call leaves the clip with timelineRange [newStart, newStart + d)
\* (d its duration before) and its sourceRange, once in the target track and
\* in no other; a move within the clip's track throws exactly when the new
\* range overlaps a clip of the track other than the moved one.
C24_MoveClipPlacesClip ==
    \A clipId \in ClipIds, newTrackId \in TrackIds, newStart \in Times :
        LET loc == getClip(timeline.tracks, clipId)
            old == timeline.tracks[loc[1] + 1].clips[loc[2] + 1]
            newRange == [start |-> newStart,
                         end |-> add(newStart, duration(old.timelineRange))]
            r == moveClip(State, clipId, newTrackId, newStart)
            after == r.st.timeline.tracks
        IN  /\ r.result = "ok" =>
                 \A p \in 1..Len(after) :
                     IF after[p].id = newTrackId
                     THEN /\ Cardinality(ClipsWithId(after[p], clipId)) = 1
                          /\ \A c \in ClipsWithId(after[p], clipId) :
                                /\ after[p].clips[c].timelineRange = newRange
                                /\ after[p].clips[c].sourceRange = old.sourceRange
                                /\ after[p].clips[c].trackId = newTrackId
                     ELSE ClipsWithId(after[p], clipId) = {}
            /\ newTrackId = old.trackId =>
                 (r.result = "throw" <=>
                     \E c \in 1..Len(timeline.tracks[loc[1] + 1].clips) :
                         /\ timeline.tracks[loc[1] + 1].clips[c].id # clipId
                         /\ RangesOverlap(newRange,
                               timeline.tracks[loc[1] + 1].clips[c].timelineRange))

\* A clip was just moved within its track to a range that overlaps the range
\* it had before.
C24_Witness ==
    /\ recent # <<>>
    /\ LastCall.op = "moveClip" /\ LastCall.result = "ok"
    /\ historyIndex >= 0
    /\ LET command == history[historyIndex + 1]
       IN  /\ command.type = "move_clip"
           /\ command.data.newTrackId = command.undoData.oldTrackId
           /\ command.data.newTimelineStart # command.undoData.oldTimelineRange.start
           /\ isWithinRange(command.data.newTimelineStart,
                            command.undoData.oldTimelineRange)


\* C25: after every addMarker and removeMarker the markers are sorted
\* ascending by timestamp, and an added marker stands after every marker with
\* an earlier or equal timestamp and before every marker with a later one.
C25_MarkersSortedStable ==
    [][/\ \A p \in 1..(Len(timeline'.markers) - 1) :
             compare(timeline'.markers[p].timestamp,
                     timeline'.markers[p + 1].timestamp) <= 0
       /\ Called("addMarker", "ok") =>
             \E p \in 1..Len(timeline'.markers) :
                 /\ timeline'.markers[p].id = nextId
                 /\ timeline.markers = SubSeq(timeline'.markers, 1, p - 1)
                        \o SubSeq(timeline'.markers, p + 1, Len(timeline'.markers))
                 /\ \A q \in 1..(p - 1) :
                       compare(timeline'.markers[q].timestamp,
                               timeline'.markers[p].timestamp) <= 0
                 /\ \A q \in (p + 1)..Len(timeline'.markers) :
                       compare(timeline'.markers[q].timestamp,
                               timeline'.markers[p].timestamp) > 0]_vars

\* The marker added last stands between an older marker with the same
\* timestamp and a marker with a later one.
C25_Witness ==
    /\ recent # <<>>
    /\ LastCall.op = "addMarker" /\ LastCall.result = "ok"
    /\ \E p \in 2..(Len(timeline.markers) - 1) :
          /\ timeline.markers[p].id = nextId - 1
          /\ compare(timeline.markers[p - 1].timestamp, timeline.markers[p].timestamp) = 0
          /\ compare(timeline.markers[p].timestamp, timeline.markers[p + 1].timestamp) < 0


\* C26: setPlayhead, setSelection and setZoomLevel leave the tracks, clips,
\* markers, duration, history list and cursor as they were, so canUndo() and
\* canRedo() keep their values.
C26_ViewStateOnly ==
    [][(\E op \in {"setPlayhead", "setSelection", "setZoomLevel"} : Called(op, "ok")) =>
          /\ timeline' = timeline
          /\ effHeap' = effHeap
          /\ history' = history
          /\ historyIndex' = historyIndex
          /\ nextId' = nextId
          /\ canUndo(State') = canUndo(State)
          /\ canRedo(State') = canRedo(State)]_vars

\* The view state was just changed while a redo is pending.
C26_Witness ==
    /\ recent # <<>>
    /\ LastCall.kind = "view"
    /\ state # InitialState
    /\ canRedo(State)

\* C27: the zoom level is always in [10, 1000]: it starts at 100 and
\* setZoomLevel(z) stores the clamped value and emits it with 'zoom:changed'.
C27_ZoomLevelClamped ==
    /\ state.zoomLevel # <<>>
    /\ MinZoomLevel <= state.zoomLevel[1]
    /\ state.zoomLevel[1] <= MaxZoomLevel
    /\ (recent # <<>> /\ LastCall.op = "setZoomLevel") =>
          /\ emitted[Len(emitted)].event = "zoom:changed"
          /\ emitted[Len(emitted)].payload = state.zoomLevel


\* C28: reorderTracks(from, to) on positions of existing tracks changes
\* nothing and emits nothing when from = to, and records exactly one
\* 'reorder_tracks' command after the entries up to the cursor when from # to.
C28_ReorderNoOpNotRecorded ==
    \A fromIndex, toIndex \in 0..(Len(timeline.tracks) - 1) :
        LET r == reorderTracks(State, fromIndex, toIndex)
        IN  IF fromIndex = toIndex
            THEN r.st = State /\ r.emitted = <<>> /\ r.result = "noop"
            ELSE /\ r.result = "ok"
                 /\ Len(r.st.history) = historyIndex + 2
                 /\ SubSeq(r.st.history, 1, historyIndex + 1)
                       = SubSeq(history, 1, historyIndex + 1)
                 /\ r.st.history[historyIndex + 2].type = "reorder_tracks"
                 /\ r.st.history[historyIndex + 2].data
                       = [fromIndex |-> fromIndex, toIndex |-> toIndex]
                 /\ r.st.historyIndex = historyIndex + 1

\* A reorder of a track onto its own position was just called after a
\* reorder that moved a track.
C28_Witness ==
    /\ Len(recent) >= 2
    /\ recent[Len(recent) - 1].op = "reorderTracks"
    /\ recent[Len(recent) - 1].result = "ok"
    /\ LastCall.op = "reorderTracks" /\ LastCall.result = "noop"
    /\ Len(timeline.tracks) >= 2
    /\ Obs = preObs
    /\ emitted = <<>>
    /\ history # <<>> /\ history[Len(history)].type = "reorder_tracks"
    /\ prePos = <<Len(history), historyIndex>>


\* The event a structural mutator emits last.
OwnEvent(op) ==
    CASE op = "addTrack" -> "track:added"
      [] op = "removeTrack" -> "track:removed"
      [] op = "reorderTracks" -> "tracks:reordered"
      [] op = "addClip" -> "clip:added"
      [] op = "removeClip" -> "clip:removed"
      [] op = "moveClip" -> "clip:moved"
      [] op = "trimClip" -> "clip:trimmed"
      [] op = "splitClip" -> "clip:split"

Rejected(r) == r.result = "false" /\ r.emitted = <<>> /\ r.st = State

\* C30: a call that names an id that does not exist (removeTrack,
\* removeClip, removeMarker, moveClip with an unknown clip or an unknown
\* target track, trimClip, splitClip, addClip with an unknown track,
\* addEffect, removeEffect with an unknown clip or effect) returns false or
\* null, raises no error, leaves tracks, clips, markers, duration, history
\* list and cursor unchanged and emits no event.  Stated in every reachable
\* state for every unknown id and every value of the other arguments.
C30_UnknownIdsRejected ==
    /\ \A trackId \in UnknownTrackIds :
          /\ Rejected(removeTrack(State, trackId))
          /\ \A clip \in ClipInputs : Rejected(addClip(State, trackId, clip))
          /\ \A clipId \in ClipIds, newTimelineStart \in Times :
                Rejected(moveClip(State, clipId, trackId, newTimelineStart))
    /\ \A clipId \in UnknownClipIds :
          /\ Rejected(removeClip(State, clipId))
          /\ \A newTrackId \in AnyIds, newTimelineStart \in Times :
                Rejected(moveClip(State, clipId, newTrackId, newTimelineStart))
          /\ \A newSourceRange \in TrimSourceInputs, newTimelineRange \in TrimTimelineInputs :
                Rejected(trimClip(State, clipId, newSourceRange, newTimelineRange))
          /\ \A splitPoint \in Times : Rejected(splitClip(State, clipId, splitPoint))
          /\ Rejected(addEffect(State, clipId))
          /\ \A effectId \in AnyIds : Rejected(removeEffect(State, clipId, effectId))
    /\ \A clip \in AllClips(timeline.tracks) :
          \A effectId \in UnknownEffectIds(clip) :
              Rejected(removeEffect(State, clip.id, effectId))
    /\ \A markerId \in UnknownMarkerIds : Rejected(removeMarker(State, markerId))

\* removeEffect has just been refused an effect id that a clip with an
\* effect does not have, after a command was recorded, and nothing moved.
C30_Witness ==
    /\ recent # <<>>
    /\ LastCall.op = "removeEffectId" /\ LastCall.kind = "unknown"
    /\ LastCall.result = "false"
    /\ emitted = <<>>
    /\ \E clip \in AllClips(timeline.tracks) : effHeap[clip.effects] # <<>>
    /\ history # <<>>
    /\ Obs = preObs
    /\ prePos = <<Len(history), historyIndex>>

\* C40: for every integer ms, negative values included, fromMilliseconds(ms)
\* has nanoseconds in [0, 1e9) and toMilliseconds(fromMilliseconds(ms)) = ms.
C40_MillisecondsRoundTrip ==
    tsCall.op = "fromMilliseconds" =>
        /\ 0 <= tsCall.value.ts.nanoseconds
        /\ tsCall.value.ts.nanoseconds < NANOSECONDS_PER_SECOND
        /\ tsCall.value.back = tsCall.arg[1]

\* Every element of the tracks array is a track.
OnlyTracks(tracks) == \A p \in 1..Len(tracks) : tracks[p] # undefined

\* C38: for all indices from and to in 0..n-1 with from # to,
\* reorderTracks(from, to) followed by reorderTracks(to, from) restores the
\* original track order and indices.
C38_ReorderThenInverseRestores ==
    OnlyTracks(timeline.tracks) =>
        \A fromIndex, toIndex \in 0..(Len(timeline.tracks) - 1) :
            fromIndex # toIndex =>
                LET there == reorderTracks(State, fromIndex, toIndex)
                    back == reorderTracks(there.st, toIndex, fromIndex)
                IN  /\ there.result = "ok"
                    /\ back.result = "ok"
                    /\ back.st.timeline.tracks = timeline.tracks

\* C39: reorderTracks(from, to) with from outside 0..n-1 leaves the track
\* sequence unchanged (no track removed, nothing that is not a track
\* inserted, n tracks) and adds no command to the history.
C39_OutOfRangeReorderChangesNothing ==
    OnlyTracks(timeline.tracks) =>
        \A fromIndex, toIndex \in ReorderIndices :
            (fromIndex < 0 \/ fromIndex >= Len(timeline.tracks)) =>
                LET r == reorderTracks(State, fromIndex, toIndex)
                IN  /\ r.st.timeline.tracks = timeline.tracks
                    /\ r.st.history = history

\* C35: every clip id occurs in exactly one track and exactly once in that
\* track's clip list, and the clip's trackId is the id of the track that
\* holds it.
C35_ClipOwnedByOneTrack ==
    \A t \in 1..Len(timeline.tracks) :
        \A p \in 1..Len(timeline.tracks[t].clips) :
            LET clip == timeline.tracks[t].clips[p]
            IN  /\ clip.trackId = timeline.tracks[t].id
                /\ \A u \in 1..Len(timeline.tracks) :
                      \A q \in 1..Len(timeline.tracks[u].clips) :
                          timeline.tracks[u].clips[q].id = clip.id => (u = t /\ q = p)

\* A clip was just moved to another track, which holds it now.
C35_Witness ==
    /\ recent # <<>>
    /\ LastCall.op = "moveClip" /\ LastCall.result = "ok"
    /\ historyIndex >= 0
    /\ LET command == history[historyIndex + 1]
       IN  /\ command.type = "move_clip"
           /\ command.data.newTrackId # command.undoData.oldTrackId
           /\ \E t \in 1..Len(timeline.tracks) :
                 /\ timeline.tracks[t].id = command.data.newTrackId
                 /\ \E p \in 1..Len(timeline.tracks[t].clips) :
                       timeline.tracks[t].clips[p].id = command.data.clipId

\* C31: the generation of a flow goes up by exactly 1 on every successful
\* addSegment, is unchanged by a failed addSegment and by getSegmentsInRange,
\* getSegmentAtTimestamp, getTotalDuration, hasContinuousCoverage, getGaps,
\* clone and extractRange on the flow, never goes down, and for a flow built
\* from empty is the number of successful addSegment calls (each of which
\* left one more segment).
C31_GenerationCountsAddSegments ==
    [][/\ flow'.generation >= flow.generation
       /\ (flowCall'.op = "addSegment" /\ flowCall'.result = "ok")
             => flow'.generation = flow.generation + 1
       /\ (flowCall'.op = "addSegment" /\ flowCall'.result = "throw")
             => flow'.generation = flow.generation
       /\ flowCall'.op \in {"getSegmentsInRange", "getSegmentAtTimestamp",
                            "getTotalDuration", "hasContinuousCoverage", "getGaps",
                            "clone", "extractRange"}
             => flow'.generation = flow.generation
       /\ flow'.generation = Len(flow'.segments)]_vars

\* extractRange has just copied a segment out of a flow that two successful
\* addSegment calls built.
C31_Witness ==
    /\ flowCall.op = "extractRange"
    /\ flowCall.result = "ok"
    /\ flowCall.value.segments # <<>>
    /\ flow.generation = 2
    /\ Len(flow.segments) = 2

\* C32: at most one segment contains a timestamp under the half-open test,
\* and getSegmentAtTimestamp returns that segment when there is one and
\* undefined otherwise: at the shared boundary of two adjacent segments it
\* returns the later one.
C32_SegmentAtTimestampUnique ==
    flowCall.op = "getSegmentAtTimestamp" =>
        LET ts == flowCall.arg
            holders == {p \in 1..Len(flow.segments) :
                           /\ compare(flow.segments[p].timerange.start, ts) <= 0
                           /\ compare(ts, flow.segments[p].timerange.end) < 0}
        IN  /\ Cardinality(holders) <= 1
            /\ holders = {} => flowCall.value = <<>>
            /\ \A p \in holders : flowCall.value = <<flow.segments[p]>>

\* The timestamp asked for is where one segment ends and the next starts, and
\* the later segment was returned.
C32_Witness ==
    /\ flowCall.op = "getSegmentAtTimestamp"
    /\ Len(flow.segments) = 2
    /\ compare(flow.segments[1].timerange.start, flow.segments[1].timerange.end) < 0
    /\ compare(flow.segments[1].timerange.end, flowCall.arg) = 0
    /\ compare(flow.segments[2].timerange.start, flowCall.arg) = 0
    /\ flowCall.value = <<flow.segments[2]>>

\* C36: for a flow built by successful addSegment calls, zero-length segments
\* included, hasContinuousCoverage() is true if and only if getGaps() is
\* empty.
C36_ContinuousIffNoGaps ==
    flowCall.op = "hasContinuousCoverage" =>
        (flowCall.value <=> getGaps(flow) = <<>>)

\* The source segments that extractRange copies from, in the order it takes
\* them.
Sources == getSegmentsInRange(flow, flowCall.arg)

\* C33: in the result of extractRange(range), a segment whose source has a
\* mediaTimerange and was clipped at either boundary has a mediaTimerange that
\* starts at source.mediaTimerange.start + (clippedStart - source.start) and
\* lasts clippedEnd - clippedStart; a source that lies wholly inside the range
\* has its mediaTimerange copied unchanged; objectIds are carried over
\* unchanged in both cases.
C33_ExtractedMediaShifted ==
    (flowCall.op = "extractRange" /\ flowCall.result = "ok") =>
        /\ Len(flowCall.value.segments) = Len(Sources)
        /\ \A p \in 1..Len(Sources) :
              LET source == Sources[p]
                  out == flowCall.value.segments[p]
                  inside == /\ compare(flowCall.arg.start, source.timerange.start) <= 0
                            /\ compare(source.timerange.end, flowCall.arg.end) <= 0
              IN  /\ out.objectIds = source.objectIds
                  /\ inside => out.mediaTimerange = source.mediaTimerange
                  /\ (~inside /\ source.mediaTimerange = <<>>) => out.mediaTimerange = <<>>
                  /\ (~inside /\ source.mediaTimerange # <<>>) =>
                        /\ out.mediaTimerange # <<>>
                        /\ out.mediaTimerange[1].start =
                              add(source.mediaTimerange[1].start,
                                  subtract(out.timerange.start, source.timerange.start))
                        /\ subtract(out.mediaTimerange[1].end, out.mediaTimerange[1].start)
                              = subtract(out.timerange.end, out.timerange.start)

\* A segment with a mediaTimerange was just cut at its start, and a second
\* segment was copied whole.
C33_Witness ==
    /\ flowCall.op = "extractRange"
    /\ flowCall.result = "ok"
    /\ Len(Sources) = 2
    /\ Sources[1].mediaTimerange # <<>>
    /\ compare(Sources[1].timerange.start, flowCall.arg.start) < 0
    /\ flowCall.value.segments[1].mediaTimerange # Sources[1].mediaTimerange
    /\ Sources[2].mediaTimerange # <<>>
    /\ flowCall.value.segments[2].mediaTimerange = Sources[2].mediaTimerange

\* C37: for a flow whose segments are sorted and pairwise non-overlapping and
\* a range with start <= end, extractRange(range) raises no overlap error and
\* the segments of the result are sorted ascending, pairwise non-overlapping,
\* each contained in the range and in its source segment.
C37_ExtractRangeWellFormed ==
    flowCall.op = "extractRange" =>
        /\ flowCall.result = "ok"
        /\ LET out == flowCall.value.segments
           IN  /\ Len(out) = Len(Sources)
               /\ \A p \in 1..(Len(out) - 1) :
                     compare(out[p].timerange.start, out[p + 1].timerange.start) <= 0
               /\ \A p, q \in 1..Len(out) :
                     p # q => ~RangesOverlap(out[p].timerange, out[q].timerange)
               /\ \A p \in 1..Len(out) :
                     /\ compare(out[p].timerange.start, out[p].timerange.end) <= 0
                     /\ compare(flowCall.arg.start, out[p].timerange.start) <= 0
                     /\ compare(out[p].timerange.end, flowCall.arg.end) <= 0
                     /\ compare(Sources[p].timerange.start, out[p].timerange.start) <= 0
                     /\ compare(out[p].timerange.end, Sources[p].timerange.end) <= 0

\* Three segments were copied out of a flow, the first of them cut by the
\* range.
C37_Witness ==
    /\ flowCall.op = "extractRange"
    /\ flowCall.result = "ok"
    /\ Len(flowCall.value.segments) = 3
    /\ compare(Sources[1].timerange.start, flowCall.arg.start) < 0
    /\ flowCall.value.segments[1].timerange # Sources[1].timerange

\* C34: clone() and extractRange() leave the source flow unchanged (segments,
\* order, timeranges, generation); clone() returns a flow with generation 0
\* whose segments have the count, order, timeranges and objectIds of the
\* source, each with the clone's id as flowId; a later addSegment on the
\* clone does not change the source's segment list or generation, and a later
\* addSegment on the source does not change the clone's.
C34_CloneIsIndependent ==
    [][/\ flowCall'.op \in {"clone", "extractRange"} => flow' = flow
       /\ flowCall'.op = "clone" =>
             LET made == copy'[1].flow
             IN  /\ made.generation = 0
                 /\ Len(made.segments) = Len(flow.segments)
                 /\ \A p \in 1..Len(flow.segments) :
                       /\ made.segments[p].timerange = flow.segments[p].timerange
                       /\ made.segments[p].objectIds = flow.segments[p].objectIds
                       /\ made.segments[p].flowId = made.id
       /\ flowCall'.op = "copy.addSegment" =>
             /\ flow'.segments = flow.segments
             /\ flow'.generation = flow.generation
       /\ (flowCall'.op = "addSegment" /\ copy # <<>>) =>
             /\ copy'[1].flow.segments = copy[1].flow.segments
             /\ copy'[1].flow.generation = copy[1].flow.generation]_vars

\* A segment was just added to the clone of a flow with a segment, after the
\* source had been given a segment the clone does not have.
C34_Witness ==
    /\ flowCall.op = "copy.addSegment"
    /\ flowCall.result = "ok"
    /\ copy # <<>>
    /\ Len(copy[1].flow.segments) = 2
    /\ copy[1].flow.generation = 1
    /\ Len(flow.segments) = 2
    /\ \E p \in 1..2 : \A q \in 1..2 :
          flow.segments[p].timerange # copy[1].flow.segments[q].timerange

=============================================================================
